---- MODULE Spec2Model ----
(***************************************************************************)
(* APRS Emergency Detector (aed.py): the beacon callback `mycallback`, its *)
(* three classification strategies, and the TTL-bounded message cache it   *)
(* consults before a notification is generated; and the message chunker    *)
(* make_pretty_sms_messages of utils.py.                                   *)
(*                                                                         *)
(* Conventions                                                             *)
(*   - A Python value that may be missing / None is None (<<>>) or         *)
(*     Some(v) (<<v>>).  A packet is a record whose every field is such an *)
(*     optional value: `"k" in raw_aprs_packet` is Has(pkt, "k").          *)
(*   - Latitude / longitude are integers in units of 1e-7 degree, speed in *)
(*     units of 0.01, course in units of 0.1 degree, so that Python's      *)
(*     round(x, 6), round(x, 1), round(x, 0) are roundings to a multiple   *)
(*     of 10.                                                              *)
(*   - Time is in seconds; the clock advances a minute at a time.          *)
(***************************************************************************)
EXTENDS Naturals, Integers, Sequences, FiniteSets, TLC

VARIABLES
    message_cache,                 \* aed.py:250 the ExpiringDict, in insertion order
    now,                           \* time.time(), in seconds
    aed_aprs_extension,            \* aed.py:180 APRS 1.2 extension enabled
    aed_mice_message_types,        \* aed.py:176 the active categories of the config file
    aed_messenger_configfile,      \* aed.py:167 full-message Apprise config given
    aed_sms_messenger_configfile,  \* aed.py:168 abbreviated-message Apprise config given
    aed_categories,                \* aed.py:187 the Mic-E message types monitored
    aed_extended_categories,       \* aed.py:188 the comment markers monitored
    aed_tocall_categories,         \* aed.py:181 the TOCALL literals monitored
    apprise_config_files,          \* output_generator.py:101 the channels ("full", "sms")
                                   \* whose Apprise config file is on disk
    sms_call,                      \* a call of utils.make_pretty_sms_messages: its
                                   \* arguments and, once it has returned, its result
    geo_call,                      \* a call of a conversion of geo_conversion_modules.py:
                                   \* its arguments and, once it has returned, its result
    startup,                       \* aed.py:165-252 the start of the program: the --ttl
                                   \* argument, how far the start has got, and the TTL
                                   \* the cache was set up with
    apprise_call,                  \* a call of output_generator.generate_apprise_message
                                   \* for an abbreviated message: its arguments and, once
                                   \* it is over, the bodies handed to apobj.notify
    last,                          \* history: what the last callback did
    lastTrue                       \* history: per identity, the last evaluation that returned
                                   \* True (its state and time), whether the entry it wrote
                                   \* has since been dropped to make room for another identity,
                                   \* the channels it was delivered on, and whether the feed
                                   \* was reconnected or the program restarted since

vars == <<message_cache, now, aed_aprs_extension, aed_mice_message_types,
          aed_messenger_configfile, aed_sms_messenger_configfile,
          aed_categories, aed_extended_categories, aed_tocall_categories,
          apprise_config_files, sms_call, geo_call, startup, apprise_call,
          last, lastTrue>>

config_vars == <<aed_aprs_extension, aed_mice_message_types,
                 aed_messenger_configfile, aed_sms_messenger_configfile,
                 aed_categories, aed_extended_categories, aed_tocall_categories,
                 apprise_config_files>>

call_vars == <<sms_call, geo_call, startup, apprise_call>>

----------------------------------------------------------------------------
(* Bounds of the model *)

\* aed_definitions.py:117 sets 1000; scaled down so that a full cache is reachable
APRS_TTL_MAX_MESSAGES == 2

\* the longest of the fragments enumerated in full for the chunker
MaxFragmentLen == 4

\* the depth at which the model stops following the chunker's calls of
\* itself
MaxRecursion == 3

\* the largest --ttl argument the model starts the program with
MaxTtlArgument == 60

\* --ttl, in minutes (utils.py:371-377, default 480); scaled down
aed_time_to_live == 2

----------------------------------------------------------------------------
(* Optional values *)

None == <<>>

Some(v) == <<v>>

Has(pkt, k) == pkt[k] # None

Val(pkt, k) == pkt[k][1]

----------------------------------------------------------------------------
(* aed_definitions.py *)

\* the dict is iterated in insertion order: a sequence of <<key, value>>
AED_APRS_MAPPING ==
    << <<"OFF_DUTY",   "M0: Off Duty">>,
       <<"EN_ROUTE",   "M1: En Route">>,
       <<"IN_SERVICE", "M2: In Service">>,
       <<"RETURNING",  "M3: Returning">>,
       <<"COMMITTED",  "M4: Committed">>,
       <<"SPECIAL",    "M5: Special">>,
       <<"PRIORITY",   "M6: Priority">>,
       <<"EMERGENCY",  "Emergency">> >>

AED_APRS_EXTENDED_MAPPING ==
    << <<"OFF_DUTY",   "!OFF-DUTY!">>,
       <<"EN_ROUTE",   "!ENROUTE!">>,
       <<"IN_SERVICE", "!INSERVICE!">>,
       <<"RETURNING",  "!RETURNING!">>,
       <<"COMMITTED",  "!COMMITTED!">>,
       <<"SPECIAL",    "!SPECIAL!">>,
       <<"PRIORITY",   "!PRIORITY!">>,
       <<"EMERGENCY",  "!EMERGENCY!">>,
       <<"TESTALARM",  "!TESTALARM!">> >>

APRS_EXTENDED_TOCALL_LIST == {"ALARM", "ALERT", "WARNING", "WXALARM", "EM"}

\* `key in mapping`
InMapping(mapping, key) == \E i \in 1..Len(mapping) : mapping[i][1] = key

\* `mapping[key]`, for a key of the mapping
Lookup(mapping, key) ==
    mapping[CHOOSE i \in 1..Len(mapping) : mapping[i][1] = key][2]

----------------------------------------------------------------------------
(* aed.py:186-197 the category lists derived from the configuration; the  *)
(* lists are only ever tested for membership and are held as sets          *)

\* aed.py:189-191 the Mic-E message types of the active categories
CategoriesOf(types) ==
    { Lookup(AED_APRS_MAPPING, t) :
        t \in { u \in types : InMapping(AED_APRS_MAPPING, u) } }

\* mutant: every marker is monitored, whatever the active categories
ExtendedCategoriesOf_all(types, extension) ==
    IF extension
    THEN { AED_APRS_EXTENDED_MAPPING[i][2] : i \in 1..Len(AED_APRS_EXTENDED_MAPPING) }
    ELSE {}

\* aed.py:193-197 the comment markers of the active categories
ExtendedCategoriesOf(types, extension) ==
    IF extension
    THEN { Lookup(AED_APRS_EXTENDED_MAPPING, t) :
             t \in { u \in types : InMapping(AED_APRS_EXTENDED_MAPPING, u) } }
    ELSE {}

----------------------------------------------------------------------------
(* mycallback: classification (aed.py:48-91) *)

\* str.startswith
startswith(s, prefix) ==
    Len(s) >= Len(prefix) /\ SubSeq(s, 1, Len(prefix)) = prefix

\* aed.py:56-61 the formats the comment strategy looks at
EXTENDED_FORMATS == {"compressed", "uncompressed", "object", "mic-e"}

\* aed.py:64-68 the loop over AED_APRS_EXTENDED_MAPPING.items(), from entry i:
\* the key of the first entry whose marker is enabled and starts the comment
RECURSIVE ScanExtendedMapping(_, _)
ScanExtendedMapping(comment, i) ==
    IF i > Len(AED_APRS_EXTENDED_MAPPING) THEN None
    ELSE IF /\ AED_APRS_EXTENDED_MAPPING[i][2] \in aed_extended_categories
            /\ startswith(comment, AED_APRS_EXTENDED_MAPPING[i][2])
         THEN Some(AED_APRS_EXTENDED_MAPPING[i][1])
         ELSE ScanExtendedMapping(comment, i + 1)

\* aed.py:88-91 the loop over AED_APRS_MAPPING.items(), from entry i:
\* the key of the first entry whose value is mtype
RECURSIVE ScanMapping(_, _)
ScanMapping(mtype, i) ==
    IF i > Len(AED_APRS_MAPPING) THEN None
    ELSE IF AED_APRS_MAPPING[i][2] = mtype
         THEN Some(AED_APRS_MAPPING[i][1])
         ELSE ScanMapping(mtype, i + 1)

\* aed.py:56 the guard of the comment strategy
CommentBranch(fmt) == aed_aprs_extension /\ fmt \in EXTENDED_FORMATS

\* aed.py:54-68 emergency code via the comment field
CommentStrategy(pkt, fmt) ==
    IF CommentBranch(fmt) /\ Has(pkt, "comment")
    THEN ScanExtendedMapping(Val(pkt, "comment"), 1)
    ELSE None

\* mutant: the TOCALL strategy also runs after a comment match
TocallBranch_always(category) == aed_aprs_extension

\* aed.py:71 the guard of the TOCALL strategy
TocallBranch(category) == aed_aprs_extension /\ category = None

\* mutant: the destination address is taken as it is, monitored or not
TocallStrategy_any_destination(pkt, category) ==
    IF TocallBranch(category) /\ Has(pkt, "to")
    THEN Some(Val(pkt, "to"))
    ELSE category

\* mutant: the destination address is tested against the active categories
TocallStrategy_active_category(pkt, category) ==
    IF /\ TocallBranch(category)
       /\ Has(pkt, "to")
       /\ Val(pkt, "to") \in aed_mice_message_types
    THEN Some(Val(pkt, "to"))
    ELSE category

\* aed.py:70-75 emergency code via TOCALL
TocallStrategy(pkt, category) ==
    IF /\ TocallBranch(category)
       /\ Has(pkt, "to")
       /\ Val(pkt, "to") \in aed_tocall_categories
    THEN Some(Val(pkt, "to"))
    ELSE category

\* mutant: the Mic-E strategy runs for every packet form
MiceBranch_any_format(fmt, category) == category = None

\* aed.py:78 the guard of the Mic-E strategy
MiceBranch(fmt, category) == fmt = "mic-e" /\ category = None

\* mutant: the message type is not tested against the monitored ones
MiceStrategy_unmonitored(pkt, fmt, category) ==
    IF MiceBranch(fmt, category) /\ Has(pkt, "mtype")
    THEN ScanMapping(Val(pkt, "mtype"), 1)
    ELSE category

\* mutant: the message type itself is taken as the category
MiceStrategy_message_type(pkt, fmt, category) ==
    IF /\ MiceBranch(fmt, category)
       /\ Has(pkt, "mtype")
       /\ Val(pkt, "mtype") \in aed_categories
    THEN Some(Val(pkt, "mtype"))
    ELSE category

\* aed.py:77-91 Mic-E message type of a position report
MiceStrategy(pkt, fmt, category) ==
    IF /\ MiceBranch(fmt, category)
       /\ Has(pkt, "mtype")
       /\ Val(pkt, "mtype") \in aed_categories
    THEN ScanMapping(Val(pkt, "mtype"), 1)
    ELSE category

\* aed.py:48-91 aed_mice_category after the three branches, and the branch
\* that assigned it; a packet without "format" is not looked at
Classify(pkt) ==
    IF ~Has(pkt, "format") THEN [category |-> None, strategy |-> "none"]
    ELSE LET fmt == Val(pkt, "format")
             c1  == CommentStrategy(pkt, fmt)
             c2  == TocallStrategy(pkt, c1)
             c3  == MiceStrategy(pkt, fmt, c2)
         IN  [category |-> c3,
              strategy |-> IF c1 # None THEN "comment"
                           ELSE IF c2 # None THEN "tocall"
                           ELSE IF c3 # None THEN "mic-e"
                           ELSE "none"]

\* mutant: the fields are subscripted without a look whether they are there
SubscriptsRead_unguarded(pkt) ==
    IF ~Has(pkt, "format") THEN {"format"}
    ELSE LET fmt == Val(pkt, "format")
             c1  == CommentStrategy(pkt, fmt)
             c2  == TocallStrategy(pkt, c1)
         IN  {"format"}
             \cup (IF CommentBranch(fmt) THEN {"comment"} ELSE {})
             \cup (IF TocallBranch(c1) THEN {"to"} ELSE {})
             \cup (IF MiceBranch(fmt, c2) THEN {"mtype"} ELSE {})

\* aed.py:49, 63, 73, 81 the keys raw_aprs_packet is subscripted with while
\* a packet is classified, each under the conditions the code reads it under
SubscriptsRead(pkt) ==
    IF ~Has(pkt, "format") THEN {}
    ELSE LET fmt == Val(pkt, "format")
             c1  == CommentStrategy(pkt, fmt)
             c2  == TocallStrategy(pkt, c1)
         IN  {"format"}
             \cup (IF CommentBranch(fmt) /\ Has(pkt, "comment")
                   THEN {"comment"} ELSE {})
             \cup (IF TocallBranch(c1) /\ Has(pkt, "to") THEN {"to"} ELSE {})
             \cup (IF MiceBranch(fmt, c2) /\ Has(pkt, "mtype")
                   THEN {"mtype"} ELSE {})

\* raw_aprs_packet[k] raises KeyError for a key the packet does not have;
\* the values of the packets are strings, as the parser delivers them, so
\* that startswith and the membership tests are defined for them
ClassifyRaises(pkt) == \E k \in SubscriptsRead(pkt) : ~Has(pkt, k)

----------------------------------------------------------------------------
(* The message cache: ExpiringDict(max_len, max_age_seconds), aed.py:249-252. *)
(* The dictionary is a sequence of entries [key, value, time] in insertion    *)
(* order; an entry is live while its age is below max_age_seconds; an entry   *)
(* that has outlived it is removed when it is next looked at.                 *)

\* mutant: the cache is built one entry too large
max_len_off_by_one == APRS_TTL_MAX_MESSAGES + 1

\* aed.py:251 max_len=APRS_TTL_MAX_MESSAGES
max_len == APRS_TTL_MAX_MESSAGES

\* mutant: the minutes are handed on as seconds
max_age_seconds_not_converted == aed_time_to_live

\* mutant: the minutes are converted as if they were hours
max_age_seconds_from_hours == aed_time_to_live * 3600

\* aed.py:251 max_age_seconds=aed_time_to_live * 60
max_age_seconds == aed_time_to_live * 60

\* position of key in the dictionary, 0 when it has none
IndexOfKey(cache, key) ==
    IF \E i \in 1..Len(cache) : cache[i].key = key
    THEN CHOOSE i \in 1..Len(cache) : cache[i].key = key
    ELSE 0

\* del d[key] for the entry at position i
DelAt(cache, i) == SubSeq(cache, 1, i - 1) \o SubSeq(cache, i + 1, Len(cache))

\* `key in d` at time t: whether key has a live entry, and the dictionary
\* afterwards (an expired entry of key is deleted)
ExpiringDict_contains(cache, key, t) ==
    LET i == IndexOfKey(cache, key)
    IN  IF i = 0 THEN [found |-> FALSE, cache |-> cache]
        ELSE IF t - cache[i].time < max_age_seconds
             THEN [found |-> TRUE, cache |-> cache]
             ELSE [found |-> FALSE, cache |-> DelAt(cache, i)]

\* `d[key]` for a key with a live entry
ExpiringDict_getitem(cache, key) == cache[IndexOfKey(cache, key)].value

\* `d[key] = value` at time t: a full dictionary first drops key's own live
\* entry or else its oldest entry; then the entry is written with time t
\* (in place when key is still there, at the end otherwise)
ExpiringDict_setitem(cache, key, value, t) ==
    LET c    == ExpiringDict_contains(cache, key, t)
        room == IF Len(cache) = max_len
                THEN IF c.found THEN DelAt(c.cache, IndexOfKey(c.cache, key))
                     ELSE IF c.cache # <<>> THEN Tail(c.cache) ELSE c.cache
                ELSE cache
        i    == IndexOfKey(room, key)
        e    == [key |-> key, value |-> value, time |-> t]
    IN  IF i = 0 THEN Append(room, e) ELSE [room EXCEPT ![i] = e]

\* the state kept per callsign
Payload(latitude, longitude, speed, course, category) ==
    [latitude |-> latitude, longitude |-> longitude, speed |-> speed,
     course |-> course, category |-> category]

\* field-wise comparison of a stored state with a new one
SameState(a, b) ==
    /\ a.latitude = b.latitude
    /\ a.longitude = b.longitude
    /\ a.speed = b.speed
    /\ a.course = b.course
    /\ a.category = b.category

\* mutant: a duplicate refreshes the time of its entry
set_message_cache_entry_touch(cache, callsign, latitude, longitude, speed, course, category, t) ==
    LET payload == Payload(latitude, longitude, speed, course, category)
        c       == ExpiringDict_contains(cache, callsign, t)
    IN  [send  |-> ~(c.found /\ SameState(ExpiringDict_getitem(c.cache, callsign), payload)),
         cache |-> ExpiringDict_setitem(c.cache, callsign, payload, t)]

\* utils.set_message_cache_entry at time t: whether the message is to be
\* sent, and the cache afterwards.  A callsign without a live entry is
\* inserted; a live entry with the same state is left alone; a live entry
\* with another state is overwritten.
set_message_cache_entry(cache, callsign, latitude, longitude, speed, course, category, t) ==
    LET payload == Payload(latitude, longitude, speed, course, category)
        c       == ExpiringDict_contains(cache, callsign, t)
    IN  IF c.found /\ SameState(ExpiringDict_getitem(c.cache, callsign), payload)
        THEN [send |-> FALSE, cache |-> c.cache]
        ELSE [send |-> TRUE,
              cache |-> ExpiringDict_setitem(c.cache, callsign, payload, t)]

----------------------------------------------------------------------------
(* mycallback: the values taken from the packet (aed.py:96-108) *)

\* mutant: the value is not rounded
round_omitted(x) == x

\* Python's round(x, n) on a value held in units of a tenth of 10^-n: the
\* nearest multiple of 10 (the packets of the model hold no value half way)
round(x) == ((x + 5) \div 10) * 10

\* aed.py:99-108 a numeric field, rounded, or None when the packet lacks it
Rounded(pkt, k) == IF Has(pkt, k) THEN Some(round(Val(pkt, k))) ELSE None

\* aed.py:103-104 mice_from
mice_from(pkt) == IF Has(pkt, "from") THEN Some(Val(pkt, "from")) ELSE None

\* mutant: latitude and longitude are handed over in each other's place
CachePayload_swapped(pkt, category) ==
    Payload(Rounded(pkt, "longitude"), Rounded(pkt, "latitude"),
            Rounded(pkt, "speed"), Rounded(pkt, "course"), category)

\* mutant: the course is handed over as the speed
CachePayload_course_as_speed(pkt, category) ==
    Payload(Rounded(pkt, "latitude"), Rounded(pkt, "longitude"),
            Rounded(pkt, "course"), Rounded(pkt, "course"), category)

\* aed.py:112-120 the state handed to set_message_cache_entry
CachePayload(pkt, category) ==
    Payload(Rounded(pkt, "latitude"), Rounded(pkt, "longitude"),
            Rounded(pkt, "speed"), Rounded(pkt, "course"), category)

\* output_generator.generate_apprise_message raises before anything is sent:
\*   - render_png_map asserts the latitude, for the full message
\*     (output_generator.py:254, called at output_generator.py:126): an
\*     AssertionError for a latitude of None or 0
\*   - convert_latlon_to_maidenhead takes int(latitude), int(longitude)
\*     (geo_conversion_modules.py:127): a TypeError for None
\*   - the abbreviated body formats the speed as {speed:.1f}
\*     (output_generator.py:173): a TypeError for None
GenerateRaises(payload, abbreviated_message_format) ==
    \/ ~abbreviated_message_format /\ payload.latitude \in {None, Some(0)}
    \/ payload.latitude = None
    \/ payload.longitude = None
    \/ abbreviated_message_format /\ payload.speed = None

\* output_generator.py:101-105 generate_apprise_message returns False, and
\* neither builds nor sends anything, when its config file is not on disk
ConfigFileMissing(channel) == channel \notin apprise_config_files

\* aed.py:127-156 the calls of generate_apprise_message for a packet, in the
\* order of the code, whether one of them raised, and the calls that got as
\* far as apobj.notify (output_generator.py:197-211); an exception leaves
\* the callback, so that the calls after it are not made
Notifications(send_the_message, payload) ==
    LET full       == aed_messenger_configfile /\ send_the_message
        fullBuilt  == full /\ ~ConfigFileMissing("full")
        fullRaised == fullBuilt /\ GenerateRaises(payload, FALSE)
        sms        == /\ ~fullRaised
                      /\ aed_sms_messenger_configfile /\ send_the_message
        smsBuilt   == sms /\ ~ConfigFileMissing("sms")
        smsRaised  == smsBuilt /\ GenerateRaises(payload, TRUE)
    IN  [calls  |-> (IF full THEN <<"full">> ELSE <<>>)
                    \o (IF sms THEN <<"sms">> ELSE <<>>),
         raised |-> fullRaised \/ smsRaised,
         delivered |-> (IF fullBuilt /\ ~fullRaised THEN {"full"} ELSE {})
                       \cup (IF smsBuilt /\ ~smsRaised THEN {"sms"} ELSE {})]

\* mutant: the entry is kept only if a notification went out
CacheWhenDone_kept_if_delivered(cache, r, n) ==
    IF n.delivered = {} THEN cache ELSE r.cache

\* aed.py:110-156 the cache when the callback ends, for the cache before it,
\* the result r of set_message_cache_entry and the notifications n: as the
\* evaluation left it, since nothing after aed.py:110 writes message_cache
CacheWhenDone(cache, r, n) == r.cache

----------------------------------------------------------------------------
(* geo_conversion_modules.py.  A coordinate is held in hundredths of an    *)
(* arc second, so that a degree is 360000 and the fractions of a degree    *)
(* the conversions work with are whole numbers.                            *)

\* a degree, a minute and a second in the unit of the coordinates
DEGREE == 3600 * 100

MINUTE == 60 * 100

SECOND == 10 * 10

\* Python's abs
abs(x) == IF x < 0 THEN 0 - x ELSE x

\* 10 ** n
RECURSIVE pow10(_)
pow10(n) == IF n = 0 THEN 1 ELSE 10 * pow10(n - 1)

\* Python's round(seconds, output_precision), for seconds in hundredths: the
\* nearest multiple of 10^-output_precision.  Half way between two of them
\* the float that stands for the value lies on either side, and either
\* neighbour can come out.  A precision finer than a hundredth changes nothing.
round_seconds(sec, output_precision) ==
    IF output_precision >= 2 THEN {sec}
    ELSE LET step == pow10(2 - output_precision)
             down == (sec \div step) * step
         IN  IF 2 * (sec - down) < step THEN {down}
             ELSE IF 2 * (sec - down) > step THEN {down + step}
             ELSE {down, down + step}

\* geo_conversion_modules.py:249-275 one coordinate of convert_latlon_to_dms
\* before the seconds are rounded: divmod twice, the sign put on the degrees,
\* and the heading read from the signed degrees
heading_of_degrees(coordinate, negative, positive) ==
    LET is_positive == coordinate >= 0
        degrees     == abs(coordinate) \div DEGREE
        signed      == IF is_positive THEN degrees ELSE 0 - degrees
    IN  IF signed < 0 THEN negative ELSE positive

\* geo_conversion_modules.py:249-282 convert_latlon_to_dms: the results it
\* can return, the seconds in hundredths
convert_latlon_to_dms(latitude, longitude, output_precision) ==
    { [latitude_deg      |-> abs(latitude) \div DEGREE,
       latitude_min      |-> (abs(latitude) % DEGREE) \div MINUTE,
       latitude_sec      |-> lat_sec,
       latitude_heading  |-> heading_of_degrees(latitude, "S", "N"),
       longitude_deg     |-> abs(longitude) \div DEGREE,
       longitude_min     |-> (abs(longitude) % DEGREE) \div MINUTE,
       longitude_sec     |-> lon_sec,
       longitude_heading |-> heading_of_degrees(longitude, "W", "E")] :
        lat_sec \in round_seconds(abs(latitude) % MINUTE, output_precision),
        lon_sec \in round_seconds(abs(longitude) % MINUTE, output_precision) }

\* geo_conversion_modules.py:328-340 convert_dms_to_latlon; the headings of
\* the model are upper case and among N, S, E, W
convert_dms_to_latlon(dms) ==
    LET latitude  == dms.latitude_deg * DEGREE + dms.latitude_min * MINUTE
                     + dms.latitude_sec
        longitude == dms.longitude_deg * DEGREE + dms.longitude_min * MINUTE
                     + dms.longitude_sec
    IN  [latitude  |-> IF dms.latitude_heading = "N" THEN latitude
                       ELSE 0 - latitude,
         longitude |-> IF dms.longitude_heading = "E" THEN longitude
                       ELSE 0 - longitude]

\* Python's int() of a coordinate in degrees: the fraction is cut off,
\* towards zero
int(coordinate) ==
    IF coordinate < 0 THEN 0 - (abs(coordinate) \div DEGREE)
    ELSE coordinate \div DEGREE

\* geo_conversion_modules.py:127 the test before the conversion
InRangeForMaidenhead(latitude, longitude) ==
    abs(int(latitude)) <= 90 /\ abs(int(longitude)) <= 180

\* maidenhead.to_maiden: for coordinates of the globe the locator, of which
\* the model keeps the field (two letters, 20 degrees of longitude and 10 of
\* latitude each, the pole and the date line in fields of their own); for
\* coordinates off the globe the library gives some string or raises
to_maiden(latitude, longitude) ==
    IF abs(latitude) <= 90 * DEGREE /\ abs(longitude) <= 180 * DEGREE
    THEN { [raised |-> FALSE,
            result |-> Some(<<(longitude + 180 * DEGREE) \div (20 * DEGREE),
                              (latitude + 90 * DEGREE) \div (10 * DEGREE)>>)] }
    ELSE { [raised |-> FALSE, result |-> Some(<<0 - 1, 0 - 1>>)],
           [raised |-> TRUE, result |-> None] }

\* geo_conversion_modules.py:104-131 convert_latlon_to_maidenhead: the
\* outcomes it can have
convert_latlon_to_maidenhead(latitude, longitude) ==
    IF InRangeForMaidenhead(latitude, longitude)
    THEN to_maiden(latitude, longitude)
    ELSE { [raised |-> FALSE, result |-> None] }

----------------------------------------------------------------------------
(* output_generator.py: the abbreviated message.  The speed is held in     *)
(* tenths of a km/h; a course is a whole number of degrees, held as an int *)
(* or as a float; the distance is the km haversine returns, rounded.       *)

\* utils.py:149 the default of max_len of make_pretty_sms_messages
DEFAULT_MAX_LEN == 67

\* the letters chr(ord("A") + n) is taken from, and their lower case
Letters == "ABCDEFGHIJKLMNOPQRSTUVWX"

\* utm.from_latlon, called at geo_conversion_modules.py:58: the library
\* raises for a latitude outside of -80..84 degrees and for a longitude
\* outside of -180..180
from_latlon_raises(latitude, longitude) ==
    \/ latitude < 0 - 80 * DEGREE \/ latitude > 84 * DEGREE
    \/ longitude < 0 - 180 * DEGREE \/ longitude >= 180 * DEGREE

\* maidenhead.to_maiden with precision=4, for a place of the globe: the
\* field, the square, the subsquare (in lower case) and the extended square,
\* the longitude first in each pair
locator(latitude, longitude) ==
    LET lon      == longitude + 180 * DEGREE
        lat      == latitude + 90 * DEGREE
        lon_rest == lon % (20 * DEGREE)
        lat_rest == lat % (10 * DEGREE)
        lon_sub  == 24 * (lon_rest % (2 * DEGREE))
        lat_sub  == 24 * (lat_rest % DEGREE)
        lon_ext  == 10 * (lon_sub % (2 * DEGREE))
        lat_ext  == 10 * (lat_sub % DEGREE)
        upper(n) == SubSeq(Letters, n + 1, n + 1)
        lower(n) == SubSeq("abcdefghijklmnopqrstuvwx", n + 1, n + 1)
    IN  upper(lon \div (20 * DEGREE)) \o upper(lat \div (10 * DEGREE))
        \o ToString(lon_rest \div (2 * DEGREE)) \o ToString(lat_rest \div DEGREE)
        \o lower(lon_sub \div (2 * DEGREE)) \o lower(lat_sub \div DEGREE)
        \o ToString(lon_ext \div (2 * DEGREE)) \o ToString(lat_ext \div DEGREE)

\* str() of a value that may be None
str(value) == IF value = None THEN "None" ELSE value[1]

\* f"{speed:.1f}" of a speed of so many tenths
format_speed(speed) == ToString(speed \div 10) \o "." \o ToString(speed % 10)

\* f"{course}": an int as its digits, a float of a whole number with ".0"
format_course(course) ==
    ToString(course.value) \o (IF course.is_float THEN ".0" ELSE "")

\* output_generator.py:157-159, 173 the abbreviated body for the result of
\* convert_latlon_to_maidenhead
apprise_body(category, callsign, latitude, longitude, geo_maidenhead, speed, course, distance) ==
    "!" \o category \o "! CS:" \o str(callsign)
    \o " Pos:" \o (IF geo_maidenhead = None THEN "None"
                   ELSE locator(latitude, longitude))
    \o " Spd:" \o format_speed(speed)
    \o " Dir:" \o format_course(course)
    \o " Dst:" \o ToString(distance) \o "km"

\* output_generator.py:52-224 generate_apprise_message with
\* abbreviated_message_format=True: the outcomes it can have for a call c,
\* the bodies handed to apobj.notify (output_generator.py:197-202) among
\* them.  Without its config file it returns False; an error of a conversion
\* leaves it before anything is built.
generate_abbreviated(c) ==
    IF ConfigFileMissing("sms")
    THEN { [returned |-> TRUE, success |-> FALSE, raised |-> FALSE,
            body |-> "", notified |-> <<>>] }
    ELSE IF from_latlon_raises(c.latitude_aprs, c.longitude_aprs)
    THEN { [returned |-> FALSE, success |-> FALSE, raised |-> TRUE,
            body |-> "", notified |-> <<>>] }
    ELSE { IF out.raised
           THEN [returned |-> FALSE, success |-> FALSE, raised |-> TRUE,
                 body |-> "", notified |-> <<>>]
           ELSE LET body == apprise_body(c.category, c.callsign,
                                         c.latitude_aprs, c.longitude_aprs,
                                         out.result, c.speed, c.course,
                                         c.distance)
                IN  [returned |-> TRUE, success |-> TRUE, raised |-> FALSE,
                     body |-> body, notified |-> <<body>>] :
           out \in convert_latlon_to_maidenhead(c.latitude_aprs,
                                                c.longitude_aprs) }

----------------------------------------------------------------------------
(* utils.py: the message chunker (its parameter max_len is mlen here).  A  *)
(* Python str is a string; the strings of the model hold ASCII characters  *)
(* and one umlaut of the table of convert_text_to_plain_ascii, and the     *)
(* blank is their only whitespace.                                         *)

\* utils.py:298 the capital A with diaeresis (U+00C4), the first entry of the
\* table of convert_text_to_plain_ascii.  A string kept in a state holds
\* ASCII characters only, so the character is written # in the model.
A_UMLAUT == "#"

\* s[i:] for i counted from 1
StrFrom(s, i) == SubSeq(s, i, Len(s))

\* utils.py:201 re.sub("[{}|~]+", "", message_to_add)
RECURSIVE remove_non_permitted(_)
remove_non_permitted(s) ==
    IF s = "" THEN ""
    ELSE IF SubSeq(s, 1, 1) \in {"{", "}", "|", "~"}
         THEN remove_non_permitted(StrFrom(s, 2))
         ELSE SubSeq(s, 1, 1) \o remove_non_permitted(StrFrom(s, 2))

\* utils.py:297-307 convert_text_to_plain_ascii: the replacements of the
\* table, then unidecode, which leaves ASCII characters as they are
RECURSIVE convert_text_to_plain_ascii(_)
convert_text_to_plain_ascii(message_string) ==
    IF message_string = "" THEN ""
    ELSE (IF SubSeq(message_string, 1, 1) = A_UMLAUT THEN "Ae"
          ELSE SubSeq(message_string, 1, 1))
         \o convert_text_to_plain_ascii(StrFrom(message_string, 2))

\* str.split() from the character after `word`, the word read so far: the
\* maximal runs of characters that are no whitespace
RECURSIVE SplitFrom(_, _)
SplitFrom(s, word) ==
    IF s = "" THEN (IF word = "" THEN <<>> ELSE <<word>>)
    ELSE IF SubSeq(s, 1, 1) = " "
         THEN (IF word = "" THEN <<>> ELSE <<word>>) \o SplitFrom(StrFrom(s, 2), "")
         ELSE SplitFrom(StrFrom(s, 2), word \o SubSeq(s, 1, 1))

\* utils.py:216 message_to_add.split()
split(s) == SplitFrom(s, "")

\* mutant: only the pieces of full length are kept
RECURSIVE split_string_to_string_list_full_only(_, _)
split_string_to_string_list_full_only(message_string, mlen) ==
    IF Len(message_string) < mlen THEN <<>>
    ELSE <<SubSeq(message_string, 1, mlen)>>
         \o split_string_to_string_list_full_only(
                StrFrom(message_string, mlen + 1), mlen)

\* mutant: the string is handed back in one piece
split_string_to_string_list_whole(message_string, mlen) == <<message_string>>

\* utils.py:277-281 split_string_to_string_list: message_string[i : i + max_len]
\* for i in range(0, len(message_string), max_len)
RECURSIVE split_string_to_string_list(_, _)
split_string_to_string_list(message_string, mlen) ==
    IF message_string = "" THEN <<>>
    ELSE <<SubSeq(message_string, 1,
                  IF Len(message_string) < mlen
                  THEN Len(message_string) ELSE mlen)>>
         \o split_string_to_string_list(
                StrFrom(message_string, mlen + 1), mlen)

\* mutant: every word is handed to the chunker again
Recurses_always(word, mlen) == TRUE

\* utils.py:220 the word is short enough for the chunker to call itself
Recurses(word, mlen) == Len(word) < mlen

\* utils.py:242 the test whether the fragment goes into the last chunk
Fits(string_from_list, message_to_add, mlen, add_sep) ==
    Len(string_from_list) + Len(message_to_add) + 1 <= mlen

\* mutant: the fragment goes to the head of the list
Insert_at_head(message_to_add, destination_list, mlen, separator_char, add_sep) ==
    <<message_to_add>> \o destination_list

\* utils.py:236-251 the fragment is put into the last chunk or made a new one
Insert(message_to_add, destination_list, mlen, separator_char, add_sep) ==
    IF Len(destination_list) > 0
    THEN LET string_from_list == destination_list[Len(destination_list)]
             delimiter == IF Len(string_from_list) > 0 /\ add_sep
                          THEN separator_char ELSE ""
         IN  IF Fits(string_from_list, message_to_add, mlen, add_sep)
             THEN [destination_list EXCEPT
                      ![Len(destination_list)] =
                          string_from_list \o delimiter \o message_to_add]
             ELSE Append(destination_list, message_to_add)
    ELSE Append(destination_list, message_to_add)

RECURSIVE make_pretty_sms_messages(_, _, _, _, _, _, _)
RECURSIVE PackWords(_, _, _, _, _, _, _)

\* utils.py:217-235 the loop over split_data: the list after the words, and
\* the deepest call reached
PackWords(split_data, destination_list, mlen, separator_char, add_sep, force_outgoing_unicode_messages, depth) ==
    IF split_data = <<>>
    THEN [list |-> destination_list, depth |-> depth]
    ELSE LET word == Head(split_data)
             r == IF Recurses(word, mlen)
                  THEN make_pretty_sms_messages(
                           word, destination_list, mlen, separator_char,
                           add_sep, force_outgoing_unicode_messages, depth + 1)
                  ELSE [list  |-> destination_list
                                  \o split_string_to_string_list(word, mlen),
                        depth |-> depth]
             rest == PackWords(Tail(split_data), r.list, mlen,
                               separator_char, add_sep,
                               force_outgoing_unicode_messages, depth)
         IN  [list  |-> rest.list,
              depth |-> IF r.depth > rest.depth THEN r.depth ELSE rest.depth]

\* utils.py:146-253 make_pretty_sms_messages, called at the given depth of
\* calls of itself (0 for the caller's call): the list returned and the
\* deepest call reached.  A missing list (None) and the empty list are both
\* <<>>.  Beyond MaxRecursion the calls are not followed.
make_pretty_sms_messages(message_to_add, destination_list, mlen, separator_char, add_sep, force_outgoing_unicode_messages, depth) ==
    IF depth > MaxRecursion
    THEN [list |-> destination_list, depth |-> depth]
    ELSE LET permitted == remove_non_permitted(message_to_add)
             message   == IF ~force_outgoing_unicode_messages
                          THEN convert_text_to_plain_ascii(permitted)
                          ELSE permitted
         IN  IF Len(message) > mlen
             THEN PackWords(split(message), destination_list, mlen,
                            separator_char, add_sep,
                            force_outgoing_unicode_messages, depth)
             ELSE [list  |-> Insert(message, destination_list, mlen,
                                    separator_char, add_sep),
                   depth |-> depth]

----------------------------------------------------------------------------
(* The packets and configurations the model draws from *)

Callsigns == { "CALL" \o ToString(i) : i \in 1..APRS_TTL_MAX_MESSAGES }

\* the identities the cache is keyed by: a callsign, or None for a packet
\* without "from"; one more than the cache holds
Keys == {None} \cup { Some(c) : c \in Callsigns }

MkPacket(fmt, comment, to, mtype, from, latitude, longitude, speed, course) ==
    [format |-> fmt, comment |-> comment, to |-> to, mtype |-> mtype,
     from |-> from, latitude |-> latitude, longitude |-> longitude,
     speed |-> speed, course |-> course]

NoPacket == MkPacket(None, None, None, None, None, None, None, None, None)

\* a Mic-E position report
MicePacket(mtype, from, p) ==
    MkPacket(Some("mic-e"), None, None, Some(mtype), from,
             Some(p[1]), Some(p[2]), Some(p[3]), Some(p[4]))

BasePosition == <<10, 30, 660, 1800>>

\* <<latitude, longitude, speed, course>>: the base position, one that rounds
\* to the same state, and one differing from the base in each single field
Positions ==
    { BasePosition,
      <<13, 30, 660, 1800>>,
      <<20, 30, 660, 1800>>,
      <<10, 40, 660, 1800>>,
      <<10, 30, 670, 1800>>,
      <<10, 30, 660, 1810>> }

\* emergencies of every identity at two positions
CachePackets ==
    { MicePacket("Emergency", f, p) :
        f \in Keys, p \in {BasePosition, <<20, 30, 660, 1800>>} }

\* reports of one station and of a packet without "from": every position,
\* and the base position in a second category
FieldPackets ==
    { MicePacket("Emergency", f, p) : f \in {None, Some("CALL1")}, p \in Positions }
    \cup
    { MicePacket("M6: Priority", f, BasePosition) : f \in {None, Some("CALL1")} }

Formats ==
    {None, Some("mic-e"), Some("uncompressed"), Some("compressed"),
     Some("object"), Some("status")}

Comments ==
    {None, Some("!EMERGENCY! help"), Some("!PRIORITY!"), Some("!emergency!"),
     Some("!EMERG")}

Tocalls == {None, Some("ALARM"), Some("APDR16")}

Mtypes == {None, Some("Emergency"), Some("M6: Priority")}

\* packets of one station at one position, of every form
ClassifyPackets ==
    { MkPacket(fmt, c, to, m, Some("CALL1"),
               Some(BasePosition[1]), Some(BasePosition[2]),
               Some(BasePosition[3]), Some(BasePosition[4])) :
        fmt \in Formats, c \in Comments, to \in Tocalls, m \in Mtypes }

\* packets of one station with every destination literal, a destination in
\* another case, an ordinary one and none; with and without "format", a
\* marker in the comment and an operator status
TocallPackets ==
    { MkPacket(fmt, c, to, m, Some("CALL1"),
               Some(BasePosition[1]), Some(BasePosition[2]),
               Some(BasePosition[3]), Some(BasePosition[4])) :
        fmt \in {None, Some("mic-e"), Some("status")},
        c \in {None, Some("!EMERGENCY! help")},
        to \in {None, Some("alarm"), Some("APDR16")}
               \cup { Some(t) : t \in APRS_EXTENDED_TOCALL_LIST },
        m \in {None, Some("Emergency")} }

\* the Mic-E message types of the mapping, and one outside it
MiceMtypes ==
    { Some(AED_APRS_MAPPING[i][2]) : i \in 1..Len(AED_APRS_MAPPING) }
    \cup {None, Some("C0: Custom-0")}

\* packets of one station with every message type, as a Mic-E and as a
\* compressed position report; with and without a marker in the comment and
\* a destination literal
MicePackets ==
    { MkPacket(fmt, c, to, m, Some("CALL1"),
               Some(BasePosition[1]), Some(BasePosition[2]),
               Some(BasePosition[3]), Some(BasePosition[4])) :
        fmt \in {Some("mic-e"), Some("compressed")},
        c \in {None, Some("!SPECIAL!")},
        to \in {None, Some("ALERT")},
        m \in MiceMtypes }

\* aed_active_categories: one category, two, and all with a message type
MiceCategoryChoices ==
    { {"EMERGENCY"}, {"OFF_DUTY", "SPECIAL"},
      { AED_APRS_MAPPING[i][1] : i \in 1..Len(AED_APRS_MAPPING) } }

\* emergencies of a station and of a packet without "from", and packets of
\* the station that no strategy may match: a message type that is not
\* monitored, one outside the mapping, a Mic-E report without message type,
\* an uncompressed report with marker and destination literal, a packet
\* without "format"
DiscardPackets ==
    { MicePacket("Emergency", f, BasePosition) : f \in {None, Some("CALL1")} }
    \cup
    { MicePacket("Emergency", Some("CALL1"), <<20, 30, 660, 1800>>),
      MicePacket("M0: Off Duty", Some("CALL1"), BasePosition),
      MicePacket("C0: Custom-0", Some("CALL1"), BasePosition),
      MkPacket(Some("mic-e"), None, None, None, Some("CALL1"),
               Some(BasePosition[1]), Some(BasePosition[2]),
               Some(BasePosition[3]), Some(BasePosition[4])),
      MkPacket(Some("uncompressed"), Some("!EMERGENCY! help"), Some("ALARM"),
               Some("Emergency"), Some("CALL1"),
               Some(BasePosition[1]), Some(BasePosition[2]),
               Some(BasePosition[3]), Some(BasePosition[4])),
      MkPacket(None, Some("!EMERGENCY! help"), Some("ALARM"),
               Some("Emergency"), Some("CALL1"), None, None, None, None) }

\* packets of one station in which each of the four fields the strategies
\* look at is absent, empty, off its literal by case or by a blank, or good
MalformedPackets ==
    { MkPacket(fmt, c, to, m, Some("CALL1"),
               Some(BasePosition[1]), Some(BasePosition[2]),
               Some(BasePosition[3]), Some(BasePosition[4])) :
        fmt \in {None, Some(""), Some("MIC-E"), Some("mic-e")},
        c \in {None, Some(""), Some("!"), Some(" !EMERGENCY!"),
               Some("!EMERGENCY!")},
        to \in {None, Some(""), Some("ALARM "), Some("EM")},
        m \in {None, Some(""), Some("emergency"), Some("Emergency")} }

\* packets of one station: a Mic-E emergency at two positions and on the
\* equator (latitude 0), a position report without speed and course that
\* carries the emergency marker, a message (no position at all) to the
\* destination literal ALARM, and a Mic-E report that is not monitored
NotifyPackets ==
    { MicePacket("Emergency", Some("CALL1"), BasePosition),
      MicePacket("Emergency", Some("CALL1"), <<20, 30, 660, 1800>>),
      MicePacket("Emergency", Some("CALL1"), <<0, 30, 660, 1800>>),
      MicePacket("M0: Off Duty", Some("CALL1"), BasePosition),
      MkPacket(Some("uncompressed"), Some("!EMERGENCY! help"), Some("APDR16"),
               None, Some("CALL1"),
               Some(BasePosition[1]), Some(BasePosition[2]), None, None),
      MkPacket(Some("message"), None, Some("ALARM"), None, Some("CALL1"),
               None, None, None, None) }

\* packets of one station that carry the name or the marker of the test
\* category in the comment, the destination address or the operator status
TestAlarmPackets ==
    { MkPacket(Some(fmt), c, to, m, Some("CALL1"),
               Some(BasePosition[1]), Some(BasePosition[2]),
               Some(BasePosition[3]), Some(BasePosition[4])) :
        fmt \in {"mic-e", "uncompressed", "message"},
        c \in {None, Some("!TESTALARM! drill"), Some("TESTALARM")},
        to \in {None, Some("TESTALARM"), Some("!TESTALARM!"), Some("ALARM")},
        m \in {None, Some("TESTALARM"), Some("!TESTALARM!"),
               Some("Emergency")} }

\* aed_active_categories with and without the test category
TestAlarmCategoryChoices ==
    { {"TESTALARM"}, {"EMERGENCY", "TESTALARM"}, {"EMERGENCY"} }

\* emergencies of one station at two positions
DeliveryPackets ==
    { MicePacket("Emergency", Some("CALL1"), p) :
        p \in {BasePosition, <<20, 30, 660, 1800>>} }

\* emergencies of two stations, of the first one at two positions
ReconnectPackets ==
    DeliveryPackets \cup {MicePacket("Emergency", Some("CALL2"), BasePosition)}

\* aed_active_categories of the configuration file
ActiveCategoryChoices ==
    { {"EMERGENCY"}, {"EMERGENCY", "PRIORITY"}, {"PRIORITY"} }

\* `last` while no callback has just run
NoCall ==
    [called |-> FALSE, pkt |-> NoPacket, category |-> None,
     strategy |-> "none", evaluated |-> FALSE, send |-> FALSE,
     notified |-> {}, prev |-> None, calls |-> <<>>, raised |-> FALSE,
     delivered |-> {}]

\* `startup` of a program that is running: its start is not looked at
NoStartup ==
    [phase |-> "running", given |-> FALSE, integer |-> TRUE, value |-> 0,
     time_to_live |-> 0, max_age_seconds |-> 0]

\* the program about to start with the argument --ttl <value>, an integer
\* numeral or not, or without the argument
Startup(given, integer, value) ==
    [phase |-> "argv", given |-> given, integer |-> integer, value |-> value,
     time_to_live |-> 0, max_age_seconds |-> 0]

\* the command lines: no --ttl, --ttl with a word that is no number, --ttl
\* with an integer below, at and above the 15 minutes
Startups ==
    { Startup(FALSE, TRUE, 0), Startup(TRUE, FALSE, 0) }
    \cup { Startup(TRUE, TRUE, v) : v \in (0 - 2)..MaxTtlArgument }

\* `geo_call` while no conversion is called
NoGeoCall ==
    [fn |-> "none", latitude |-> 0, longitude |-> 0, output_precision |-> 0,
     pending |-> FALSE, returned |-> FALSE, raised |-> FALSE,
     dms |-> None, latlon |-> None, maidenhead |-> None]

\* a call about to be made
GeoCall(fn, latitude, longitude, output_precision) ==
    [NoGeoCall EXCEPT !.fn = fn, !.latitude = latitude,
                      !.longitude = longitude,
                      !.output_precision = output_precision,
                      !.pending = TRUE]

\* coordinates up to max_degrees on both sides of zero: the first, the
\* second and the last degree, minutes and seconds at both ends of their
\* ranges, seconds below, at and above the middle of a rounding step
Coordinates(max_degrees) ==
    { sign * (d * DEGREE + m * MINUTE + c) :
        sign \in {0 - 1, 1},
        d \in {0, 1, max_degrees - 1},
        m \in {0, 30, 59},
        c \in {0, 1, 4, 5, 6, 49, 50, 51, 150, 3000, 5949, 5950, 5999} }
    \cup {0 - max_degrees * DEGREE, max_degrees * DEGREE}

\* the precisions the seconds are rounded to: whole seconds, tenths, and
\* the default of four places
OutputPrecisions == {0, 1, 4}

\* the calls of convert_latlon_to_dms: every latitude with three longitudes,
\* every longitude with three latitudes
DmsCalls ==
    { GeoCall("dms", lat, lon, p) :
        lat \in Coordinates(90),
        lon \in {0, 0 - 30 * MINUTE, 9 * DEGREE + 30 * MINUTE + 5050},
        p \in OutputPrecisions }
    \cup
    { GeoCall("dms", lat, lon, p) :
        lat \in {0, 0 - 30 * MINUTE, 51 * DEGREE + 49 * MINUTE + 850},
        lon \in Coordinates(180),
        p \in OutputPrecisions }

\* coordinates around a limit: inside, on it, and beyond it by less than a
\* degree, by a degree and by more
AroundLimit(limit) ==
    { sign * c :
        sign \in {0 - 1, 1},
        c \in {0, 45 * DEGREE + 30 * MINUTE, limit * DEGREE - 1,
               limit * DEGREE, limit * DEGREE + 1,
               limit * DEGREE + 30 * MINUTE, limit * DEGREE + DEGREE - 1,
               (limit + 1) * DEGREE, (limit + 20) * DEGREE} }

\* the calls of convert_latlon_to_maidenhead
MaidenheadCalls ==
    { GeoCall("maidenhead", lat, lon, 4) :
        lat \in AroundLimit(90), lon \in AroundLimit(180) }

\* `apprise_call` while generate_apprise_message is not called
NoAppriseCall ==
    [category |-> "", callsign |-> None, latitude_aprs |-> 0,
     longitude_aprs |-> 0, speed |-> 0,
     course |-> [value |-> 0, is_float |-> FALSE], distance |-> 0,
     pending |-> FALSE, returned |-> FALSE, success |-> FALSE,
     raised |-> FALSE, body |-> "", notified |-> <<>>]

\* a call about to be made, as at aed.py:145-156 and aed.py:231-242
AppriseCall(category, callsign, position, speed, course, distance) ==
    [NoAppriseCall EXCEPT !.category = category, !.callsign = callsign,
                          !.latitude_aprs = position[1],
                          !.longitude_aprs = position[2],
                          !.speed = speed, !.course = course,
                          !.distance = distance, !.pending = TRUE]

\* the categories a packet is classified as: keys of AED_APRS_MAPPING and
\* AED_APRS_EXTENDED_MAPPING, and a TOCALL literal (aed.py:67, 75, 90)
AppriseCategories == {"EMERGENCY", "IN_SERVICE", "TESTALARM", "EM"}

\* callsigns without and with an SSID of one and of two digits, and a packet
\* without "from" (aed.py:97, 103)
AppriseCallsigns == {None, Some("DF1JSL"), Some("DF1JSL-1"), Some("DF1JSL-15")}

\* <<latitude, longitude>>: the place of the test message (aed.py:205-206),
\* places south of the equator and west of the prime meridian, and one
\* beyond the latitudes utm converts
ApprisePositions ==
    { <<51 * DEGREE + 49 * MINUTE + 850, 9 * DEGREE + 30 * MINUTE + 5050>>,
      <<0 - (33 * DEGREE + 52 * MINUTE), 151 * DEGREE + 12 * MINUTE>>,
      <<40 * DEGREE + 42 * MINUTE + 4600, 0 - (74 * DEGREE + 21)>>,
      <<85 * DEGREE, 0>> }

\* speeds of one, two and three digits before the point, in tenths
AppriseSpeeds == {0, 666, 1234}

\* courses as aprslib gives them (int) and as the test message does (float,
\* aed.py:204)
AppriseCourses ==
    { [value |-> v, is_float |-> f] : v \in {0, 45, 180}, f \in BOOLEAN }

\* distances in km, from next door to the far side of the earth
AppriseDistances == {0, 12, 345, 6789, 20015}

\* the calls of generate_apprise_message for an abbreviated message
AppriseCalls ==
    { AppriseCall(cat, cs, pos, 666, [value |-> 180, is_float |-> TRUE], d) :
        cat \in AppriseCategories, cs \in AppriseCallsigns,
        pos \in ApprisePositions, d \in AppriseDistances }
    \cup
    { AppriseCall("IN_SERVICE", Some("DF1JSL-15"), pos, spd, crs, d) :
        pos \in ApprisePositions, spd \in AppriseSpeeds,
        crs \in AppriseCourses, d \in AppriseDistances }

\* `sms_call` while the chunker is not used
NoSmsCall ==
    [message_to_add |-> "", destination_list |-> <<>>, max_len |-> 0,
     separator_char |-> " ", add_sep |-> TRUE,
     force_outgoing_unicode_messages |-> FALSE,
     pending |-> FALSE, returned |-> FALSE, result |-> <<>>, depth |-> 0]

\* a call about to be made
SmsCall(message_to_add, destination_list, mlen, separator_char, add_sep, force_outgoing_unicode_messages) ==
    [message_to_add |-> message_to_add, destination_list |-> destination_list,
     max_len |-> mlen, separator_char |-> separator_char,
     add_sep |-> add_sep,
     force_outgoing_unicode_messages |-> force_outgoing_unicode_messages,
     pending |-> TRUE, returned |-> FALSE, result |-> <<>>, depth |-> 0]

\* the strings over the letters A and B and the blank, of length n
RECURSIVE StringsOfLen(_)
StringsOfLen(n) ==
    IF n = 0 THEN {""}
    ELSE { c \o t : c \in {"A", "B", " "}, t \in StringsOfLen(n - 1) }

\* every such string up to MaxFragmentLen
Fragments == UNION { StringsOfLen(n) : n \in 0..MaxFragmentLen }

\* fragments with characters that are not permitted, with an umlaut, of
\* blanks only, and longer ones
SpecialFragments ==
    { "AAAAAAAAAA", "AAAAAA", "ABABABA", "AAAA{A", "A{B", "AB|AB~A", "{{",
      "#A", "#AAAA", "#AAAAA", "      ", "AAAAAA BB", "AA BBBBBBB A",
      "AB  AB" }

\* the lists a fragment is added to: none, and lists whose last chunk is
\* empty, short, or longer than any max_len of the model
DestinationLists ==
    { <<>>, <<"">>, <<"AA">>, <<"A", "BBB">>, <<"AAAAAAA">> }

\* separators of one character and of two
Separators == {" ", ",", ", "}

\* the calls of the chunker the model makes
SmsCalls ==
    { SmsCall(m, d, n, sc, a, FALSE) :
        m \in Fragments, d \in DestinationLists, n \in {1, 2, 3, 5},
        sc \in Separators, a \in BOOLEAN }
    \cup
    { SmsCall(m, d, 5, " ", a, f) :
        m \in SpecialFragments, d \in {<<>>, <<"AA">>},
        a \in BOOLEAN, f \in BOOLEAN }

----------------------------------------------------------------------------
(* Actions *)

\* utils.py:146-253 the call of make_pretty_sms_messages returns
call_make_pretty_sms_messages ==
    /\ sms_call.pending
    /\ \E r \in {make_pretty_sms_messages(
                      sms_call.message_to_add, sms_call.destination_list,
                      sms_call.max_len, sms_call.separator_char,
                      sms_call.add_sep,
                      sms_call.force_outgoing_unicode_messages, 0)} :
         sms_call' = [sms_call EXCEPT !.pending = FALSE, !.returned = TRUE,
                                      !.result = r.list, !.depth = r.depth]
    /\ UNCHANGED <<message_cache, now, config_vars, last, lastTrue, startup,
                   geo_call, apprise_call>>

\* aed.py:250 the cache as it is set up: an ExpiringDict without entries
NewCache == <<>>

\* utils.py:371-377 the default of --ttl: 8 * 60 minutes
DEFAULT_TIME_TO_LIVE == 8 * 60

\* utils.py:319 the minimum of emergency_run_interval_check
MINIMUM_EMERGENCY_INTERVAL == 15

\* utils.py:317-321 emergency_run_interval_check: the value, or an
\* ArgumentTypeError for a value below the minimum.  No add_argument of
\* get_command_line_params names it as its type.
emergency_run_interval_check(interval_value) ==
    [raised |-> interval_value < MINIMUM_EMERGENCY_INTERVAL,
     value  |-> interval_value]

\* utils.py:371-377 the type of --ttl is int: any integer numeral is taken,
\* anything else is an error of the parser
ttl_type(integer, value) == [raised |-> ~integer, value |-> value]

\* utils.py:340-411 get_command_line_params, as far as --ttl goes: the
\* parser converts the argument with its type and ends the program on an
\* error; without the argument the default is taken
get_command_line_params ==
    /\ startup.phase = "argv"
    /\ \E t \in {ttl_type(startup.integer, startup.value)} :
         startup' =
           IF ~startup.given
           THEN [startup EXCEPT !.phase = "parsed",
                                !.time_to_live = DEFAULT_TIME_TO_LIVE]
           ELSE IF t.raised
                THEN [startup EXCEPT !.phase = "exited"]
                ELSE [startup EXCEPT !.phase = "parsed",
                                     !.time_to_live = t.value]
    /\ UNCHANGED <<message_cache, now, config_vars, last, lastTrue, sms_call,
                   geo_call, apprise_call>>

\* aed.py:249-252 the cache is set up with max_age_seconds=aed_time_to_live * 60
create_message_cache ==
    /\ startup.phase = "parsed"
    /\ startup' = [startup EXCEPT !.phase = "cache",
                                  !.max_age_seconds = startup.time_to_live * 60]
    /\ message_cache' = NewCache
    /\ UNCHANGED <<now, config_vars, last, lastTrue, sms_call, geo_call,
                   apprise_call>>

\* geo_conversion_modules.py:214-282 a call of convert_latlon_to_dms returns
call_convert_latlon_to_dms ==
    /\ geo_call.fn = "dms" /\ geo_call.pending
    /\ \E dms \in convert_latlon_to_dms(geo_call.latitude, geo_call.longitude,
                                       geo_call.output_precision) :
         geo_call' = [geo_call EXCEPT !.pending = FALSE, !.returned = TRUE,
                                      !.dms = Some(dms)]
    /\ UNCHANGED <<message_cache, now, config_vars, last, lastTrue, sms_call,
                   startup, apprise_call>>

\* geo_conversion_modules.py:285-340 convert_dms_to_latlon is called with
\* what convert_latlon_to_dms returned
call_convert_dms_to_latlon ==
    /\ geo_call.fn = "dms" /\ geo_call.returned /\ geo_call.latlon = None
    /\ geo_call' = [geo_call EXCEPT
                       !.latlon = Some(convert_dms_to_latlon(geo_call.dms[1]))]
    /\ UNCHANGED <<message_cache, now, config_vars, last, lastTrue, sms_call,
                   startup, apprise_call>>

\* geo_conversion_modules.py:104-131 a call of convert_latlon_to_maidenhead
\* returns or raises
call_convert_latlon_to_maidenhead ==
    /\ geo_call.fn = "maidenhead" /\ geo_call.pending
    /\ \E out \in convert_latlon_to_maidenhead(geo_call.latitude,
                                               geo_call.longitude) :
         geo_call' = [geo_call EXCEPT !.pending = FALSE,
                                      !.returned = ~out.raised,
                                      !.raised = out.raised,
                                      !.maidenhead = out.result]
    /\ UNCHANGED <<message_cache, now, config_vars, last, lastTrue, sms_call,
                   startup, apprise_call>>

\* output_generator.py:52-224 a call of generate_apprise_message for an
\* abbreviated message returns or raises
generate_apprise_message ==
    /\ apprise_call.pending
    /\ \E out \in generate_abbreviated(apprise_call) :
         apprise_call' = [apprise_call EXCEPT !.pending = FALSE,
                                              !.returned = out.returned,
                                              !.success = out.success,
                                              !.raised = out.raised,
                                              !.body = out.body,
                                              !.notified = out.notified]
    /\ UNCHANGED <<message_cache, now, config_vars, last, lastTrue, sms_call,
                   geo_call, startup>>

\* a minute passes between two packets, until the clock shows `limit` minutes
Tick(limit) ==
    /\ ~last.raised
    /\ now < limit * 60
    /\ now' = now + 60
    /\ last' = NoCall
    /\ UNCHANGED <<message_cache, config_vars, lastTrue, call_vars>>

\* mutant: the cache is set up anew for every connection
reconnect_with_new_cache ==
    /\ ~last.raised
    /\ now + 10 <= aed_time_to_live * 60
    /\ now' = now + 10
    /\ message_cache' = NewCache
    /\ last' = NoCall
    /\ lastTrue' = [k \in Keys |->
           IF lastTrue[k] = None THEN None
           ELSE Some([lastTrue[k][1] EXCEPT !.reconnected = TRUE])]
    /\ UNCHANGED <<config_vars, call_vars>>

\* aed.py:265-288 the consumer returns, the connection is closed and, ten
\* seconds later, the loop sets up the next connection and consumer; the
\* cache of aed.py:250 is outside the loop
reconnect ==
    /\ ~last.raised
    /\ now + 10 <= aed_time_to_live * 60
    /\ now' = now + 10
    /\ last' = NoCall
    /\ lastTrue' = [k \in Keys |->
           IF lastTrue[k] = None THEN None
           ELSE Some([lastTrue[k][1] EXCEPT !.reconnected = TRUE])]
    /\ UNCHANGED <<message_cache, config_vars, call_vars>>

\* the process ends (aed.py:290-293, or an exception that nothing catches)
\* and is started again with the same configuration: aed.py:250 sets up the
\* cache
restart ==
    /\ message_cache' = NewCache
    /\ last' = NoCall
    /\ lastTrue' = [k \in Keys |->
           IF lastTrue[k] = None THEN None
           ELSE Some([lastTrue[k][1] EXCEPT !.restarted = TRUE])]
    /\ UNCHANGED <<now, config_vars, call_vars>>

\* the Apprise config file of a channel disappears from the disk while the
\* program runs; it was there at the start (utils.py:390-403) and is looked
\* for again at every notification (output_generator.py:101)
config_file_removed(channel) ==
    /\ ~last.raised
    /\ channel \in apprise_config_files
    /\ apprise_config_files' = apprise_config_files \ {channel}
    /\ last' = NoCall
    /\ UNCHANGED <<message_cache, now, aed_aprs_extension,
                   aed_mice_message_types, aed_messenger_configfile,
                   aed_sms_messenger_configfile, aed_categories,
                   aed_extended_categories, aed_tocall_categories,
                   lastTrue, call_vars>>

\* aed.py:44-158 one packet of the APRS-IS feed, handled from its
\* classification to the last notification before the consumer hands over
\* the next one (aed.py:283); an exception raised on the way leaves the
\* callback and the consumer loop and ends the program (aed.py:290 catches
\* KeyboardInterrupt and SystemExit only).  `last.calls` lists the calls made
\* for the packet in the order of the code.
\* (\E x \in {e} names the value of e)
mycallback(pkt) ==
    /\ ~last.raised
    /\ IF ClassifyRaises(pkt)
       THEN /\ last' = [NoCall EXCEPT !.called = TRUE, !.pkt = pkt,
                                      !.raised = TRUE]
            /\ UNCHANGED <<message_cache, lastTrue>>
       ELSE
       \E cl \in {Classify(pkt)} :
         IF cl.category = None
         THEN /\ last' = [NoCall EXCEPT !.called = TRUE, !.pkt = pkt]
              /\ UNCHANGED <<message_cache, lastTrue>>
         ELSE \E key \in {mice_from(pkt)},
                 payload \in {CachePayload(pkt, cl.category[1])} :
              \E r \in {set_message_cache_entry(
                            message_cache, key, payload.latitude,
                            payload.longitude, payload.speed,
                            payload.course, payload.category, now)} :
              \E n \in {Notifications(r.send, payload)} :
                /\ message_cache' = CacheWhenDone(message_cache, r, n)
                /\ last' = [called |-> TRUE, pkt |-> pkt,
                            category |-> cl.category,
                            strategy |-> cl.strategy,
                            evaluated |-> TRUE, send |-> r.send,
                            notified |-> { n.calls[i] : i \in 1..Len(n.calls) },
                            prev |-> lastTrue[key],
                            calls |-> <<"set_message_cache_entry">> \o n.calls,
                            raised |-> n.raised,
                            delivered |-> n.delivered]
                /\ lastTrue' = [k \in Keys |->
                       IF k = key /\ r.send
                       THEN Some([value |-> payload, time |-> now,
                                  evicted |-> FALSE,
                                  delivered |-> n.delivered,
                                  reconnected |-> FALSE,
                                  restarted |-> FALSE])
                       ELSE IF /\ k # key
                               /\ IndexOfKey(message_cache, k) # 0
                               /\ IndexOfKey(r.cache, k) = 0
                            THEN Some([lastTrue[k][1] EXCEPT !.evicted = TRUE])
                            ELSE lastTrue[k]]
    /\ UNCHANGED <<now, config_vars, call_vars>>

----------------------------------------------------------------------------
(* Specifications *)

\* aed.py:249-252 the cache starts empty; utils.py:390-403 a config file
\* that is named is on disk when the program starts
InitState ==
    /\ message_cache = NewCache
    /\ now = 0
    /\ last = NoCall
    /\ lastTrue = [k \in Keys |-> None]
    /\ sms_call = NoSmsCall
    /\ startup = NoStartup
    /\ geo_call = NoGeoCall
    /\ apprise_call = NoAppriseCall
    /\ apprise_config_files = {"full", "sms"}

\* the TOCALL literals get_program_config_from_file hands to aed.py:181
ConfiguredTocalls == APRS_EXTENDED_TOCALL_LIST

\* aed.py:174-197 the globals derived from the configuration
InitDerived ==
    /\ aed_categories = CategoriesOf(aed_mice_message_types)
    /\ aed_extended_categories =
           ExtendedCategoriesOf(aed_mice_message_types, aed_aprs_extension)
    /\ aed_tocall_categories = ConfiguredTocalls

\* Mic-E monitoring of two categories
InitMice ==
    /\ InitState
    /\ aed_aprs_extension = FALSE
    /\ aed_mice_message_types = {"EMERGENCY", "PRIORITY"}
    /\ aed_messenger_configfile = TRUE
    /\ aed_sms_messenger_configfile = TRUE
    /\ InitDerived

\* more identities than the cache holds, until an entry written at the start
\* expires
NextCache == Tick(aed_time_to_live) \/ \E pkt \in CachePackets : mycallback(pkt)

SpecCache == InitMice /\ [][NextCache]_vars

\* two identities, every field of the state, until a minute after an entry
\* written at the start has expired
NextFields == Tick(aed_time_to_live + 1) \/ \E pkt \in FieldPackets : mycallback(pkt)

SpecFields == InitMice /\ [][NextFields]_vars

\* every configuration of the classifier, every form of packet
InitClassify ==
    /\ InitState
    /\ aed_aprs_extension \in BOOLEAN
    /\ aed_mice_message_types \in ActiveCategoryChoices
    /\ aed_messenger_configfile \in BOOLEAN
    /\ aed_sms_messenger_configfile \in BOOLEAN
    /\ InitDerived

NextClassify == \E pkt \in ClassifyPackets : mycallback(pkt)

SpecClassify == InitClassify /\ [][NextClassify]_vars

\* two stations, until an entry written at the start expires, while the
\* feed is reconnected and the program restarted
NextReconnect ==
    \/ Tick(aed_time_to_live)
    \/ \E pkt \in ReconnectPackets : mycallback(pkt)
    \/ reconnect
    \/ restart

SpecReconnect == InitMice /\ [][NextReconnect]_vars

\* the program is started with every command line of Startups
InitStartup ==
    /\ message_cache = NewCache
    /\ now = 0
    /\ last = NoCall
    /\ lastTrue = [k \in Keys |-> None]
    /\ sms_call = NoSmsCall
    /\ startup \in Startups
    /\ geo_call = NoGeoCall
    /\ apprise_call = NoAppriseCall
    /\ apprise_config_files = {"full", "sms"}
    /\ aed_aprs_extension = FALSE
    /\ aed_mice_message_types = {"EMERGENCY"}
    /\ aed_messenger_configfile = TRUE
    /\ aed_sms_messenger_configfile = TRUE
    /\ InitDerived

NextStartup == get_command_line_params \/ create_message_cache

SpecStartup == InitStartup /\ [][NextStartup]_vars

\* a conversion is called once with arguments of DmsCalls or MaidenheadCalls
InitGeo ==
    /\ message_cache = NewCache
    /\ now = 0
    /\ last = NoCall
    /\ lastTrue = [k \in Keys |-> None]
    /\ sms_call = NoSmsCall
    /\ startup = NoStartup
    /\ geo_call \in DmsCalls \cup MaidenheadCalls
    /\ apprise_call = NoAppriseCall
    /\ apprise_config_files = {"full", "sms"}
    /\ aed_aprs_extension = FALSE
    /\ aed_mice_message_types = {"EMERGENCY"}
    /\ aed_messenger_configfile = TRUE
    /\ aed_sms_messenger_configfile = TRUE
    /\ InitDerived

NextGeo ==
    \/ call_convert_latlon_to_dms
    \/ call_convert_dms_to_latlon
    \/ call_convert_latlon_to_maidenhead

SpecGeo == InitGeo /\ [][NextGeo]_vars

\* generate_apprise_message is called once for an abbreviated message, with
\* arguments of AppriseCalls, its config file on disk or not
InitApprise ==
    /\ message_cache = NewCache
    /\ now = 0
    /\ last = NoCall
    /\ lastTrue = [k \in Keys |-> None]
    /\ sms_call = NoSmsCall
    /\ startup = NoStartup
    /\ geo_call = NoGeoCall
    /\ apprise_call \in AppriseCalls
    /\ apprise_config_files \in {{"full", "sms"}, {"full"}}
    /\ aed_aprs_extension = FALSE
    /\ aed_mice_message_types = {"EMERGENCY"}
    /\ aed_messenger_configfile = FALSE
    /\ aed_sms_messenger_configfile = TRUE
    /\ InitDerived

NextApprise == generate_apprise_message

SpecApprise == InitApprise /\ [][NextApprise]_vars

\* every choice of channels, emergencies monitored
InitDelivery ==
    /\ InitState
    /\ aed_aprs_extension = FALSE
    /\ aed_mice_message_types = {"EMERGENCY"}
    /\ aed_messenger_configfile \in BOOLEAN
    /\ aed_sms_messenger_configfile \in BOOLEAN
    /\ InitDerived

\* one station, until an entry written at the start expires, while the
\* config files may disappear
NextDelivery ==
    \/ Tick(aed_time_to_live)
    \/ \E pkt \in DeliveryPackets : mycallback(pkt)
    \/ \E channel \in {"full", "sms"} : config_file_removed(channel)

SpecDelivery == InitDelivery /\ [][NextDelivery]_vars

\* the test category active or not, the extension on and off
InitTestAlarm ==
    /\ InitState
    /\ aed_aprs_extension \in BOOLEAN
    /\ aed_mice_message_types \in TestAlarmCategoryChoices
    /\ aed_messenger_configfile = TRUE
    /\ aed_sms_messenger_configfile = TRUE
    /\ InitDerived

NextTestAlarm == \E pkt \in TestAlarmPackets : mycallback(pkt)

SpecTestAlarm == InitTestAlarm /\ [][NextTestAlarm]_vars

\* the extension on and off, the emergency marker monitored or not, every
\* destination address
InitTocall ==
    /\ InitState
    /\ aed_aprs_extension \in BOOLEAN
    /\ aed_mice_message_types \in { {"EMERGENCY"}, {"PRIORITY"} }
    /\ aed_messenger_configfile = TRUE
    /\ aed_sms_messenger_configfile = TRUE
    /\ InitDerived

NextTocall == \E pkt \in TocallPackets : mycallback(pkt)

SpecTocall == InitTocall /\ [][NextTocall]_vars

\* the extension on and off, one, two and all categories monitored, every
\* message type
InitMiceTypes ==
    /\ InitState
    /\ aed_aprs_extension \in BOOLEAN
    /\ aed_mice_message_types \in MiceCategoryChoices
    /\ aed_messenger_configfile = TRUE
    /\ aed_sms_messenger_configfile = TRUE
    /\ InitDerived

NextMiceTypes == \E pkt \in MicePackets : mycallback(pkt)

SpecMiceTypes == InitMiceTypes /\ [][NextMiceTypes]_vars

\* the chunker, called once with arguments of SmsCalls
InitChunker ==
    /\ message_cache = <<>>
    /\ now = 0
    /\ last = NoCall
    /\ lastTrue = [k \in Keys |-> None]
    /\ sms_call \in SmsCalls
    /\ startup = NoStartup
    /\ geo_call = NoGeoCall
    /\ apprise_call = NoAppriseCall
    /\ aed_aprs_extension = FALSE
    /\ aed_mice_message_types = {"EMERGENCY"}
    /\ aed_messenger_configfile = FALSE
    /\ aed_sms_messenger_configfile = TRUE
    /\ apprise_config_files = {"sms"}
    /\ InitDerived

NextChunker == call_make_pretty_sms_messages

SpecChunker == InitChunker /\ [][NextChunker]_vars

\* the extension on and off, emergencies monitored
InitMalformed ==
    /\ InitState
    /\ aed_aprs_extension \in BOOLEAN
    /\ aed_mice_message_types = {"EMERGENCY"}
    /\ aed_messenger_configfile = TRUE
    /\ aed_sms_messenger_configfile = TRUE
    /\ InitDerived

NextMalformed == \E pkt \in MalformedPackets : mycallback(pkt)

SpecMalformed == InitMalformed /\ [][NextMalformed]_vars

\* the extension on and off, emergencies monitored, each of the two
\* messages configured or not
InitNotify ==
    /\ InitState
    /\ aed_aprs_extension \in BOOLEAN
    /\ aed_mice_message_types = {"EMERGENCY"}
    /\ aed_messenger_configfile \in BOOLEAN
    /\ aed_sms_messenger_configfile \in BOOLEAN
    /\ InitDerived

NextNotify ==
    Tick(aed_time_to_live) \/ \E pkt \in NotifyPackets : mycallback(pkt)

SpecNotify == InitNotify /\ [][NextNotify]_vars

\* the extension on and off, two categories monitored, both messages
\* configured
InitDiscard ==
    /\ InitState
    /\ aed_aprs_extension \in BOOLEAN
    /\ aed_mice_message_types = {"EMERGENCY", "PRIORITY"}
    /\ aed_messenger_configfile = TRUE
    /\ aed_sms_messenger_configfile = TRUE
    /\ InitDerived

\* matched and unmatched packets, until a minute after an entry written at
\* the start has expired
NextDiscard ==
    Tick(aed_time_to_live + 1) \/ \E pkt \in DiscardPackets : mycallback(pkt)

SpecDiscard == InitDiscard /\ [][NextDiscard]_vars

----------------------------------------------------------------------------
(* What the claims speak of, stated without the operators of the model *)

\* the configured time to live, in seconds
TTLSeconds == aed_time_to_live * 60

\* the identity a beacon is evaluated under: its source callsign
IdentityOf(pkt) == pkt.from

\* the multiple of 10 nearest to x
Nearest10(x) ==
    CHOOSE m \in (x - 5)..(x + 5) : m % 10 = 0 /\ x - m < 5 /\ m - x < 5

RoundedField(v) == IF v = None THEN None ELSE Some(Nearest10(v[1]))

\* the state a classified beacon carries into the cache
NewState(pkt, category) ==
    [latitude  |-> RoundedField(pkt.latitude),
     longitude |-> RoundedField(pkt.longitude),
     speed     |-> RoundedField(pkt.speed),
     course    |-> RoundedField(pkt.course),
     category  |-> category]

\* the state of the beacon the last callback evaluated
LastState == NewState(last.pkt, last.category[1])

\* the positions of the entries kept for an identity
EntriesOf(cache, id) == { i \in 1..Len(cache) : cache[i].key = id }

\* the identity has an entry of time t that is unexpired at time now
LiveAt(cache, id) ==
    \E i \in EntriesOf(cache, id) : now - cache[i].time < TTLSeconds

\* the cache keeps exactly one entry for id: state st, written at time t
HoldsEntry(cache, id, st, t) ==
    /\ Cardinality(EntriesOf(cache, id)) = 1
    /\ \A i \in EntriesOf(cache, id) : cache[i].value = st /\ cache[i].time = t

\* the number of the five fields in which two states differ
FieldsDiffering(a, b) ==
    Cardinality({ f \in {"latitude", "longitude", "speed", "course", "category"} :
                    a[f] # b[f] })

----------------------------------------------------------------------------
(* Claims about the cache *)

\* C1 (as stated): an evaluation that returns True for an identity and a
\* state s, when the previous evaluation of that identity that returned True
\* carried the same s, lies at least a TTL after that one; that is, of the
\* evaluations of one unchanged state inside a TTL window at most one
\* returns True, whatever other identities are processed in between.
C1_AtMostOncePerWindow_Original ==
    (/\ last.evaluated /\ last.send
     /\ last.prev # None
     /\ last.prev[1].value = LastState)
    => now - last.prev[1].time >= TTLSeconds

\* C1 (amended): the same, as long as the entry written by the earlier
\* evaluation has not been dropped from a full cache to make room for
\* another identity.
C1_AtMostOncePerWindow ==
    (/\ last.evaluated /\ last.send
     /\ last.prev # None
     /\ last.prev[1].value = LastState
     /\ ~last.prev[1].evicted)
    => now - last.prev[1].time >= TTLSeconds

\* C1 witness: a repeat of an unchanged state inside the window is suppressed
\* while the cache is full of several identities, a minute after the write
C1_Witness ==
    /\ last.evaluated /\ ~last.send
    /\ last.prev # None
    /\ last.prev[1].value = LastState
    /\ last.prev[1].time < now
    /\ now - last.prev[1].time < TTLSeconds
    /\ Len(message_cache) = APRS_TTL_MAX_MESSAGES

\* C2: an evaluation of an identity without a live entry inserts the new
\* state with the current time and returns True.
C2_AbsentInserts ==
    [][(last'.evaluated /\ ~LiveAt(message_cache, IdentityOf(last'.pkt)))
       => (/\ last'.send
           /\ HoldsEntry(message_cache', IdentityOf(last'.pkt),
                         NewState(last'.pkt, last'.category[1]), now))]_vars

\* C2 witness: an identity never seen before has just been inserted, at a
\* time after the start
C2_Witness ==
    /\ last.evaluated /\ last.send
    /\ last.prev = None
    /\ now > 0
    /\ HoldsEntry(message_cache, IdentityOf(last.pkt), LastState, now)

\* C3: an evaluation returns False whenever the identity has a live entry
\* whose five fields equal those of the new state.
C3_LiveEqualReturnsFalse ==
    [][(/\ last'.evaluated
        /\ \E i \in EntriesOf(message_cache, IdentityOf(last'.pkt)) :
              /\ now - message_cache[i].time < TTLSeconds
              /\ message_cache[i].value = NewState(last'.pkt, last'.category[1]))
       => ~last'.send]_vars

\* C3 witness: a beacon whose latitude differs from the stored one only
\* below the rounding was suppressed
C3_Witness ==
    /\ last.evaluated /\ ~last.send
    /\ last.prev # None
    /\ last.prev[1].value = LastState
    /\ last.pkt.latitude # last.prev[1].value.latitude

\* C4: an evaluation of an identity with a live entry whose state differs
\* from the new state in at least one field overwrites the stored state,
\* restarts the entry's time at the current time and returns True.
C4_LiveDifferentOverwrites ==
    [][(/\ last'.evaluated
        /\ \E i \in EntriesOf(message_cache, IdentityOf(last'.pkt)) :
              /\ now - message_cache[i].time < TTLSeconds
              /\ message_cache[i].value # NewState(last'.pkt, last'.category[1]))
       => (/\ last'.send
           /\ HoldsEntry(message_cache', IdentityOf(last'.pkt),
                         NewState(last'.pkt, last'.category[1]), now))]_vars

\* C4 witness: a live entry written earlier was overwritten by a state that
\* differs from it in exactly one field, the speed
C4_Witness ==
    /\ last.evaluated /\ last.send
    /\ last.prev # None
    /\ ~last.prev[1].evicted
    /\ last.prev[1].time < now
    /\ now - last.prev[1].time < TTLSeconds
    /\ FieldsDiffering(last.prev[1].value, LastState) = 1
    /\ last.prev[1].value.speed # LastState.speed
    /\ HoldsEntry(message_cache, IdentityOf(last.pkt), LastState, now)

\* C5: when the last write for an identity stored state s at time t, an
\* evaluation of the same identity and state at or after t + TTL returns
\* True and inserts the entry again.
C5_ExpiredRenotifies ==
    (/\ last.evaluated
     /\ last.prev # None
     /\ last.prev[1].value = LastState
     /\ now - last.prev[1].time >= TTLSeconds)
    => (/\ last.send
        /\ HoldsEntry(message_cache, IdentityOf(last.pkt), LastState, now))

\* C5 witness: the unchanged state came back exactly a TTL after its write,
\* its entry still in the cache until then, and was inserted again
C5_Witness ==
    /\ last.evaluated /\ last.send
    /\ last.prev # None
    /\ ~last.prev[1].evicted
    /\ last.prev[1].value = LastState
    /\ now - last.prev[1].time = TTLSeconds
    /\ HoldsEntry(message_cache, IdentityOf(last.pkt), LastState, now)

\* C6: an evaluation that returns False leaves the cache as it was: every
\* entry, its state and its time.
C6_DuplicateLeavesCache ==
    [][(last'.evaluated /\ ~last'.send) => message_cache' = message_cache]_vars

\* C6 witness: a duplicate was evaluated later than the write of its entry,
\* with another identity's entry beside it
C6_Witness ==
    /\ last.evaluated /\ ~last.send
    /\ Len(message_cache) > 1
    /\ \E i \in EntriesOf(message_cache, IdentityOf(last.pkt)) :
          message_cache[i].time < now

\* C7: the cache never tracks more than APRS_TTL_MAX_MESSAGES identities,
\* and the insertion of an identity it has no entry for into a full cache
\* drops the oldest entry and appends the new one.
C7_CapacityBound ==
    [][/\ Len(message_cache') <= APRS_TTL_MAX_MESSAGES
       /\ (/\ last'.evaluated
           /\ Len(message_cache) = APRS_TTL_MAX_MESSAGES
           /\ EntriesOf(message_cache, IdentityOf(last'.pkt)) = {})
          => message_cache' =
                Append(Tail(message_cache),
                       [key |-> IdentityOf(last'.pkt),
                        value |-> NewState(last'.pkt, last'.category[1]),
                        time |-> now])]_vars

\* C7 witness: a full cache has just dropped the entry of one identity for
\* the entry of another
C7_Witness ==
    /\ last.evaluated /\ last.send
    /\ Len(message_cache) = APRS_TTL_MAX_MESSAGES
    /\ \E k \in Keys : lastTrue[k] # None /\ lastTrue[k][1].evicted

----------------------------------------------------------------------------
(* Claims about the classification *)

\* s begins with p
IsPrefix(p, s) == \E n \in 0..Len(s) : SubSeq(s, 1, n) = p

\* the categories with a comment marker, and the marker of each
MarkerCategories ==
    { AED_APRS_EXTENDED_MAPPING[i][1] : i \in 1..Len(AED_APRS_EXTENDED_MAPPING) }

MarkerOf(K) == Lookup(AED_APRS_EXTENDED_MAPPING, K)

\* the comment strategy, taken alone, would give the beacon category K
CommentWouldYield(pkt, K) ==
    /\ aed_aprs_extension
    /\ pkt.format \in {Some("compressed"), Some("uncompressed"),
                       Some("object"), Some("mic-e")}
    /\ K \in aed_mice_message_types
    /\ pkt.comment # None
    /\ IsPrefix(MarkerOf(K), pkt.comment[1])

CommentMatches(pkt) == \E K \in MarkerCategories : CommentWouldYield(pkt, K)

\* the destination-address strategy, taken alone, would match the beacon
TocallMatches(pkt) ==
    /\ aed_aprs_extension
    /\ pkt.format # None
    /\ pkt.to # None
    /\ pkt.to[1] \in {"ALARM", "ALERT", "WARNING", "WXALARM", "EM"}

\* the operator-status strategy, taken alone, would give the beacon category K
MiceWouldYield(pkt, K) ==
    /\ pkt.format = Some("mic-e")
    /\ pkt.mtype # None
    /\ K \in aed_mice_message_types
    /\ InMapping(AED_APRS_MAPPING, K)
    /\ Lookup(AED_APRS_MAPPING, K) = pkt.mtype[1]

\* C8: the category of a beacon is that of the first strategy that matches
\* it, in the order comment, destination address, operator status; a later
\* strategy never replaces the result of an earlier one.
C8_FirstStrategyWins ==
    last.called =>
        /\ CommentMatches(last.pkt) =>
              /\ last.strategy = "comment"
              /\ last.category # None
              /\ CommentWouldYield(last.pkt, last.category[1])
        /\ (~CommentMatches(last.pkt) /\ TocallMatches(last.pkt)) =>
              /\ last.strategy = "tocall"
              /\ last.category = last.pkt.to
        /\ (~CommentMatches(last.pkt) /\ ~TocallMatches(last.pkt)) =>
              \A K \in aed_mice_message_types :
                  MiceWouldYield(last.pkt, K) =>
                      last.strategy = "mic-e" /\ last.category = Some(K)

\* C8 witness: a Mic-E beacon with the priority marker in its comment, the
\* destination address ALARM and the operator status Emergency, all three
\* monitored, was classified PRIORITY
C8_Witness ==
    /\ last.called
    /\ CommentWouldYield(last.pkt, "PRIORITY")
    /\ TocallMatches(last.pkt)
    /\ MiceWouldYield(last.pkt, "EMERGENCY")
    /\ last.category = Some("PRIORITY")

\* C9: with the extension disabled, a beacon whose form is not mic-e is
\* given no category, whatever its comment, destination address and
\* operator status.
C9_NotMiceNoExtensionIsNone ==
    (/\ last.called
     /\ ~aed_aprs_extension
     /\ last.pkt.format # Some("mic-e"))
    => (last.category = None /\ ~last.evaluated)

\* C9 witness: an uncompressed position report carrying the emergency
\* marker, the destination address ALARM and the operator status Emergency
\* was given no category, EMERGENCY being monitored
C9_Witness ==
    /\ last.called
    /\ ~aed_aprs_extension
    /\ "EMERGENCY" \in aed_mice_message_types
    /\ last.pkt.format = Some("uncompressed")
    /\ last.pkt.comment = Some("!EMERGENCY! help")
    /\ last.pkt.to = Some("ALARM")
    /\ last.pkt.mtype = Some("Emergency")
    /\ last.category = None

\* C10: the comment strategy gives category K exactly when the extension is
\* on, the form is compressed, uncompressed, object or mic-e, K is among the
\* active categories and the comment begins, case-sensitively, with the
\* marker of K.
C10_CommentStrategyExactly ==
    last.called =>
        \A K \in MarkerCategories :
            (last.strategy = "comment" /\ last.category = Some(K))
            <=> CommentWouldYield(last.pkt, K)

\* C10, a further state reached: the marker of a category that is not
\* monitored, in the comment of an object report, gave no category while
\* the extension was on
C10_DisabledMarkerIgnored ==
    /\ last.called
    /\ aed_aprs_extension
    /\ aed_mice_message_types = {"PRIORITY"}
    /\ last.pkt.format = Some("object")
    /\ last.pkt.comment = Some("!EMERGENCY! help")
    /\ last.pkt.to = None
    /\ last.category = None

\* C10 witness: the comment strategy gave a compressed position report the
\* category EMERGENCY
C10_Witness ==
    /\ last.called
    /\ last.strategy = "comment"
    /\ last.category = Some("EMERGENCY")
    /\ last.pkt.format = Some("compressed")

\* the literals of the destination-address strategy
DestinationLiterals == {"ALARM", "ALERT", "WARNING", "WXALARM", "EM"}

BasicCategories == { AED_APRS_MAPPING[i][1] : i \in 1..Len(AED_APRS_MAPPING) }

\* the monitored categories whose status code is the beacon's
EnabledCategoriesOfCode(pkt) ==
    { K \in aed_mice_message_types \cap BasicCategories :
        pkt.mtype = Some(Lookup(AED_APRS_MAPPING, K)) }

\* C12: the operator-status strategy gives a beacon its category exactly
\* when the comment and the destination-address strategies found nothing,
\* the form is mic-e and the status code is that of a monitored category;
\* the category is then the one name K with AED_APRS_MAPPING[K] equal to
\* the status code, never none.
C12_BasicStrategyExactly ==
    last.called =>
        /\ last.strategy = "mic-e"
              <=> (/\ ~CommentMatches(last.pkt)
                   /\ ~TocallMatches(last.pkt)
                   /\ last.pkt.format = Some("mic-e")
                   /\ EnabledCategoriesOfCode(last.pkt) # {})
        /\ last.strategy = "mic-e" =>
              /\ last.category # None
              /\ { K \in BasicCategories :
                      last.pkt.mtype = Some(Lookup(AED_APRS_MAPPING, K)) }
                 = {last.category[1]}

\* C12 witness: with the extension on, a Mic-E beacon with the status code
\* M5: Special, no marker and no destination literal, was classified SPECIAL
C12_Witness ==
    /\ last.called
    /\ aed_aprs_extension
    /\ last.strategy = "mic-e"
    /\ last.pkt.mtype = Some("M5: Special")
    /\ last.pkt.to = None
    /\ last.category = Some("SPECIAL")

\* C12, a further state reached: the status code of a category that is not
\* monitored gave a Mic-E beacon no category
C12_UnmonitoredCodeIgnored ==
    /\ last.called
    /\ last.pkt.format = Some("mic-e")
    /\ last.pkt.mtype = Some("M6: Priority")
    /\ "PRIORITY" \notin aed_mice_message_types
    /\ last.pkt.to = None /\ last.pkt.comment = None
    /\ last.category = None

\* no strategy, taken alone, would give the beacon a category
NoStrategyMatches(pkt) ==
    /\ ~CommentMatches(pkt)
    /\ ~TocallMatches(pkt)
    /\ \A K \in aed_mice_message_types : ~MiceWouldYield(pkt, K)

\* C13: a beacon that no strategy matches is dropped: the cache, every
\* entry and time of it, stays as it was, the beacon is not evaluated and
\* no notification is generated for it.
C13_UnmatchedDiscarded ==
    [][(last'.called /\ NoStrategyMatches(last'.pkt))
       => (/\ message_cache' = message_cache
           /\ ~last'.evaluated
           /\ last'.notified = {})]_vars

\* C13 witness: a beacon with a message type that is not monitored was
\* dropped while the cache held an expired entry of its station, which a
\* look at the cache would have removed, both messages being configured
C13_Witness ==
    /\ last.called /\ ~last.evaluated
    /\ last.pkt.mtype = Some("M0: Off Duty")
    /\ aed_messenger_configfile /\ aed_sms_messenger_configfile
    /\ \E i \in EntriesOf(message_cache, IdentityOf(last.pkt)) :
          now - message_cache[i].time >= TTLSeconds

\* every category a strategy can give
AllCategories == MarkerCategories \cup BasicCategories \cup DestinationLiterals

\* the classification of the last beacon ended with an error
ClassificationFailed == last.raised /\ last.calls = <<>>

\* C14: the classification of a beacon, whichever of its fields are absent
\* or malformed, ends without an error, with a category or with none; it
\* ends with none exactly when no strategy matches the beacon.
C14_ClassificationNeverFails ==
    last.called =>
        /\ ~ClassificationFailed
        /\ last.category \in {None} \cup { Some(K) : K \in AllCategories }
        /\ last.category = None <=> NoStrategyMatches(last.pkt)

\* C14 witness: with the extension on, a Mic-E beacon with an empty comment,
\* the destination address ALARM followed by a blank and the status code
\* emergency in lower case ended with no category and no error
C14_Witness ==
    /\ last.called /\ ~last.raised
    /\ aed_aprs_extension
    /\ last.pkt.format = Some("mic-e")
    /\ last.pkt.comment = Some("")
    /\ last.pkt.to = Some("ALARM ")
    /\ last.pkt.mtype = Some("emergency")
    /\ last.category = None

\* C14, a further state reached: a Mic-E beacon without comment,
\* destination address and status code ended with no category and no error
C14_AbsentFieldsIgnored ==
    /\ last.called /\ ~last.raised
    /\ aed_aprs_extension
    /\ last.pkt.format = Some("mic-e")
    /\ last.pkt.comment = None /\ last.pkt.to = None /\ last.pkt.mtype = None
    /\ last.category = None

----------------------------------------------------------------------------
(* Claims about the notifications *)

\* the channel is configured
ChannelConfigured(ch) ==
    IF ch = "full" THEN aed_messenger_configfile
    ELSE aed_sms_messenger_configfile

\* the notifications of the last beacon: one for each configured channel if
\* it was classified and its evaluation returned True, none otherwise; the
\* evaluation first, each channel once
NotifiedAsEvaluated ==
    /\ \A ch \in {"full", "sms"} :
          ch \in last.notified
          <=> (/\ ChannelConfigured(ch)
               /\ last.category # None
               /\ last.evaluated /\ last.send)
    /\ last.evaluated =>
          /\ last.calls[1] = "set_message_cache_entry"
          /\ \A i \in 2..Len(last.calls) : last.calls[i] \in last.notified
          /\ Len(last.calls) = 1 + Cardinality(last.notified)
    /\ ~last.evaluated => last.calls = <<>>

\* C15 (as stated): a notification is handed over for a beacon, one for
\* each configured channel, if and only if the beacon was classified and
\* its cache evaluation returned True; the evaluation comes before the
\* notifications.
C15_NotifiedIffEvaluatedTrue == last.called => NotifiedAsEvaluated

\* C15, what holds: the same for every beacon whose handling raised no
\* exception
C15_NotifiedUnlessRaised == (last.called /\ ~last.raised) => NotifiedAsEvaluated

\* C15, a state reached: both channels configured, a Mic-E emergency on the
\* equator was classified and evaluated True, the full message was generated
\* and raised, and the abbreviated one was never generated
C15_SecondChannelLost ==
    /\ last.called /\ last.raised
    /\ aed_messenger_configfile /\ aed_sms_messenger_configfile
    /\ last.category = Some("EMERGENCY")
    /\ last.pkt.latitude = Some(0)
    /\ last.send
    /\ last.calls = <<"set_message_cache_entry", "full">>

\* C15, a state reached: the same for a message to ALARM, which has no
\* position
C15_SecondChannelLostNoPosition ==
    /\ last.called /\ last.raised
    /\ aed_messenger_configfile /\ aed_sms_messenger_configfile
    /\ last.category = Some("ALARM")
    /\ last.pkt.latitude = None
    /\ last.send
    /\ last.calls = <<"set_message_cache_entry", "full">>

----------------------------------------------------------------------------
(* Claims about the message chunker *)

\* the characters of s that are not in chars, in order
RECURSIVE Without(_, _)
Without(s, chars) ==
    IF s = "" THEN ""
    ELSE (IF SubSeq(s, 1, 1) \in chars THEN "" ELSE SubSeq(s, 1, 1))
         \o Without(StrFrom(s, 2), chars)

\* the characters of all chunks, in order
RECURSIVE Concatenated(_)
Concatenated(chunks) ==
    IF chunks = <<>> THEN ""
    ELSE Head(chunks) \o Concatenated(Tail(chunks))

\* text is original with separators put in: leaving out some occurrences of
\* the separator from text gives original
RECURSIVE ReproducesIgnoring(_, _, _)
ReproducesIgnoring(text, original, separator) ==
    IF text = "" THEN original = ""
    ELSE \/ /\ original # ""
            /\ SubSeq(text, 1, 1) = SubSeq(original, 1, 1)
            /\ ReproducesIgnoring(StrFrom(text, 2), StrFrom(original, 2),
                                  separator)
         \/ /\ Len(text) >= Len(separator)
            /\ SubSeq(text, 1, Len(separator)) = separator
            /\ ReproducesIgnoring(StrFrom(text, Len(separator) + 1),
                                  original, separator)

\* the fragment of the call as the chunker packs it: without the characters
\* { } | ~, and in plain ASCII unless unicode is asked for
CleanedFragment ==
    IF sms_call.force_outgoing_unicode_messages
    THEN Without(sms_call.message_to_add, {"{", "}", "|", "~"})
    ELSE convert_text_to_plain_ascii(
             Without(sms_call.message_to_add, {"{", "}", "|", "~"}))

\* the characters of the fragment that the chunks hold: the cleaned fragment,
\* without its whitespace when it is longer than max_len
PackedCharacters ==
    IF Len(CleanedFragment) > sms_call.max_len
    THEN Without(CleanedFragment, {" "})
    ELSE CleanedFragment

\* C16 (as stated): for a call with an empty chunk list the characters of
\* the chunks, the inserted separators left out, are the characters of the
\* fragment, in order and none dropped.
C16_ChunksReproduceInput ==
    (sms_call.returned /\ sms_call.destination_list = <<>>)
    => ReproducesIgnoring(Concatenated(sms_call.result),
                          sms_call.message_to_add, sms_call.separator_char)

\* C16 (amended): for a call with an empty chunk list the characters of the
\* chunks, the inserted separators left out, are in order the characters of
\* the fragment without { } | ~, in plain ASCII unless unicode is asked for,
\* and without its whitespace when the fragment is longer than max_len.
C16_ChunksReproduceCleanedInput ==
    (sms_call.returned /\ sms_call.destination_list = <<>>)
    => ReproducesIgnoring(Concatenated(sms_call.result),
                          PackedCharacters, sms_call.separator_char)

\* C16 witness: a fragment of two words, the first longer than max_len, was
\* packed into an empty list: the first word is cut and the second follows
\* the rest of it after a separator
C16_Witness ==
    /\ sms_call.returned
    /\ sms_call.destination_list = <<>>
    /\ sms_call.message_to_add = "AAAAAA BB"
    /\ sms_call.max_len = 5
    /\ sms_call.add_sep
    /\ sms_call.result = <<"AAAAA", "A BB">>


\* the consecutive substrings of s of n characters each, the last one
\* possibly shorter: ceil(Len(s) / n) of them
ConsecutiveSubstrings(s, n) ==
    [i \in 1..((Len(s) + n - 1) \div n) |->
        SubSeq(s, (i - 1) * n + 1,
               IF i * n < Len(s) THEN i * n ELSE Len(s))]

\* a returned call that packed a fragment without whitespace and longer than
\* max_len into an empty chunk list
LongWordPacked ==
    /\ sms_call.returned
    /\ sms_call.destination_list = <<>>
    /\ Without(sms_call.message_to_add, {" "}) = sms_call.message_to_add
    /\ Len(sms_call.message_to_add) > sms_call.max_len

\* C17 (as stated): a fragment without whitespace and of a length n above
\* max_len, packed into an empty chunk list, gives exactly its
\* ceil(n / max_len) consecutive substrings of max_len characters.
C17_LongWordHardSplit ==
    LongWordPacked
    => sms_call.result
         = ConsecutiveSubstrings(sms_call.message_to_add, sms_call.max_len)

\* C17 (amended): the same for a fragment that holds none of the characters
\* { } | ~ and, unless unicode is asked for, is plain ASCII, so that the
\* chunker packs it as it is.
C17_CleanLongWordHardSplit ==
    (LongWordPacked /\ CleanedFragment = sms_call.message_to_add)
    => sms_call.result
         = ConsecutiveSubstrings(sms_call.message_to_add, sms_call.max_len)

\* C17 witness: the ten characters of the example, packed with max_len 5
\* into an empty list, came back as two chunks of five
C17_Witness ==
    /\ LongWordPacked
    /\ sms_call.message_to_add = "AAAAAAAAAA"
    /\ sms_call.max_len = 5
    /\ sms_call.result = <<"AAAAA", "AAAAA">>

\* C17, a further state reached: a fragment whose length is no multiple of
\* max_len ends with a shorter chunk
C17_ShorterLastChunk ==
    /\ LongWordPacked
    /\ sms_call.message_to_add = "ABABABA"
    /\ sms_call.max_len = 5
    /\ sms_call.result = <<"ABABA", "BA">>


\* C18 (as stated): for a fragment that is not empty, whatever the chunk
\* list, the chunker returns a sequence of chunks that is not empty.
C18_NonEmptyResult ==
    (sms_call.returned /\ sms_call.message_to_add # "")
    => sms_call.result # <<>>

\* C18, what holds: the result is not empty unless the chunk list was empty
\* and the fragment is whitespace only and longer than max_len.
C18_NonEmptyUnlessLongBlank ==
    (/\ sms_call.returned
     /\ \/ sms_call.destination_list # <<>>
        \/ Len(CleanedFragment) <= sms_call.max_len
        \/ Without(CleanedFragment, {" "}) # "")
    => sms_call.result # <<>>

\* C18, a state reached: six blanks were packed with max_len 5 into an empty
\* list and no chunk came back
C18_BlankFragmentLost ==
    /\ sms_call.returned
    /\ sms_call.message_to_add = "      "
    /\ sms_call.destination_list = <<>>
    /\ sms_call.max_len = 5
    /\ sms_call.result = <<>>


\* C19: every call of the chunker returns, and the chunker calls itself at
\* most one level deep: it does so only for a fragment longer than max_len
\* that has a word shorter than max_len, and the call made for such a word
\* makes no further call.
C19_RecursionAtMostOnce ==
    sms_call.returned
    => /\ sms_call.depth <= 1
       /\ sms_call.depth = 1
          => /\ Len(CleanedFragment) > sms_call.max_len
             /\ \E i \in DOMAIN split(CleanedFragment) :
                    Len(split(CleanedFragment)[i]) < sms_call.max_len

\* C19, with it: no call is left pending; each one returns in one step
C19_EveryCallReturns ==
    [][sms_call.pending => sms_call'.returned]_sms_call

\* C19 witness: a fragment of three words, packed with max_len 5 into a list
\* with one chunk, made the chunker call itself for the two short words and
\* cut the long one
C19_Witness ==
    /\ sms_call.returned
    /\ sms_call.depth = 1
    /\ sms_call.message_to_add = "AA BBBBBBB A"
    /\ sms_call.destination_list = <<"AA">>
    /\ sms_call.max_len = 5
    /\ sms_call.add_sep
    /\ sms_call.result = <<"AA AA", "BBBBB", "BB A">>

\* C19, a further state reached: with max_len 1 no word is shorter than
\* max_len and the chunker never calls itself
C19_NoRecursionAtOne ==
    /\ sms_call.returned
    /\ sms_call.max_len = 1
    /\ sms_call.message_to_add = "AB A"
    /\ sms_call.depth = 0
    /\ sms_call.result = <<"A", "B", "A">>


\* a returned call whose fragment, as cleaned, is not longer than max_len
ShortFragmentPacked ==
    sms_call.returned /\ Len(CleanedFragment) <= sms_call.max_len

\* the last chunk of the list the call was given
LastChunk == sms_call.destination_list[Len(sms_call.destination_list)]

\* the last chunk with the fragment appended, after the separator when
\* add_sep is on and the last chunk is not empty
Joined ==
    LastChunk
    \o (IF sms_call.add_sep /\ LastChunk # "" THEN sms_call.separator_char
        ELSE "")
    \o CleanedFragment

\* the result of a call that appends to the last chunk when `fits`, and
\* starts a new chunk otherwise or when there is no chunk yet
PackedWhen(fits) ==
    sms_call.result
      = IF sms_call.destination_list # <<>> /\ fits
        THEN [sms_call.destination_list
                EXCEPT ![Len(sms_call.destination_list)] = Joined]
        ELSE Append(sms_call.destination_list, CleanedFragment)

\* no chunk of the list is longer than max_len
WithinLimit(chunks) ==
    \A i \in DOMAIN chunks : Len(chunks[i]) <= sms_call.max_len

\* C20 (as stated): a fragment not longer than max_len is appended to the
\* last chunk, after the separator when add_sep is on and that chunk is not
\* empty, if the chunk so extended is not longer than max_len, and starts a
\* new chunk otherwise; and if no chunk of the list given is longer than
\* max_len, no chunk of the list returned is.
C20_GreedyPackingWithinLimit ==
    /\ ShortFragmentPacked
       => PackedWhen(sms_call.destination_list # <<>>
                     /\ Len(Joined) <= sms_call.max_len)
    /\ (sms_call.returned /\ WithinLimit(sms_call.destination_list))
       => WithinLimit(sms_call.result)

\* C20, what holds: the fragment is appended when the last chunk, the
\* fragment and one character more are not longer than max_len, whether or
\* not a separator is inserted and whatever its length; and the chunks stay
\* within max_len for a separator of one character.
C20_PackedAsCounted ==
    /\ ShortFragmentPacked
       => PackedWhen(sms_call.destination_list # <<>>
                     /\ Len(LastChunk) + Len(CleanedFragment) + 1
                          <= sms_call.max_len)
    /\ (/\ sms_call.returned
        /\ Len(sms_call.separator_char) <= 1
        /\ WithinLimit(sms_call.destination_list))
       => WithinLimit(sms_call.result)

\* C20, a state reached: with a separator of two characters the chunk
\* returned is longer than max_len
C20_ChunkBeyondLimit ==
    /\ sms_call.returned
    /\ sms_call.message_to_add = "BB"
    /\ sms_call.destination_list = <<"AA">>
    /\ sms_call.max_len = 5
    /\ sms_call.separator_char = ", "
    /\ sms_call.add_sep
    /\ sms_call.result = <<"AA, BB">>

\* C20, a state reached: without separator the fragment would fill the last
\* chunk exactly, and starts a new chunk
C20_NewChunkThoughItFits ==
    /\ sms_call.returned
    /\ sms_call.message_to_add = "BBB"
    /\ sms_call.destination_list = <<"AA">>
    /\ sms_call.max_len = 5
    /\ ~sms_call.add_sep
    /\ sms_call.result = <<"AA", "BBB">>


\* C28: the chunker leaves every chunk of the list it is given, other than
\* the last, as it is and where it is, and returns a list that is not
\* shorter than the list given.
C28_EarlierChunksUntouched ==
    sms_call.returned
    => /\ Len(sms_call.result) >= Len(sms_call.destination_list)
       /\ \A i \in 1..(Len(sms_call.destination_list) - 1) :
              sms_call.result[i] = sms_call.destination_list[i]

\* C28 witness: a fragment of three words went into a list of two chunks:
\* the first chunk is as it was, the last one was extended and a chunk was
\* appended
C28_Witness ==
    /\ sms_call.returned
    /\ sms_call.destination_list = <<"A", "BBB">>
    /\ sms_call.message_to_add = "A BB"
    /\ sms_call.max_len = 3
    /\ sms_call.add_sep
    /\ sms_call.separator_char = ","
    /\ sms_call.result = <<"A", "BBB", "A", "BB">>

\* C28, a further state reached: the last chunk of the list given is the
\* only one changed
C28_LastChunkExtended ==
    /\ sms_call.returned
    /\ sms_call.destination_list = <<"A", "BBB">>
    /\ sms_call.message_to_add = "A"
    /\ sms_call.max_len = 5
    /\ sms_call.add_sep
    /\ sms_call.separator_char = ","
    /\ sms_call.result = <<"A", "BBB,A">>


----------------------------------------------------------------------------
(* Claims about the test category *)

C25_NameAloneIgnored ==
    /\ last.called
    /\ aed_aprs_extension
    /\ aed_mice_message_types = {"TESTALARM"}
    /\ last.pkt.format = Some("mic-e")
    /\ last.pkt.comment = Some("TESTALARM")
    /\ last.pkt.to = Some("TESTALARM")
    /\ last.pkt.mtype = Some("TESTALARM")
    /\ last.category = None


----------------------------------------------------------------------------
(* Claims about the cache and the delivery of notifications *)

\* the last callback evaluated a state that the identity's previous True
\* evaluation carried too, inside the TTL window of that evaluation, and no
\* notification went out for that one
RepeatOfUndelivered ==
    /\ last.evaluated
    /\ last.prev # None
    /\ last.prev[1].value = LastState
    /\ ~last.prev[1].evicted
    /\ now - last.prev[1].time < TTLSeconds
    /\ last.prev[1].delivered = {}

\* C26: the state of an evaluation that returns True is in the cache when
\* the callback ends, whether or not a channel is configured and whether or
\* not a notification went out; a repeat of that state inside the TTL window
\* is suppressed although nothing was delivered for it.
C26_CacheUpdatedWhateverDelivered ==
    /\ (last.evaluated /\ last.send)
       => HoldsEntry(message_cache, IdentityOf(last.pkt), LastState, now)
    /\ RepeatOfUndelivered => ~last.send

\* C26 witness: the full-message channel is configured and its config file
\* is gone, so that generate_apprise_message returned False for a state; the
\* repeat of the state, later inside the window, is suppressed
C26_Witness ==
    /\ RepeatOfUndelivered
    /\ ~last.send
    /\ last.prev[1].time < now
    /\ aed_messenger_configfile
    /\ ~aed_sms_messenger_configfile
    /\ "full" \notin apprise_config_files

\* C26, a further state reached: the same with no channel configured
C26_NoChannelConfigured ==
    /\ RepeatOfUndelivered
    /\ ~last.send
    /\ last.prev[1].time < now
    /\ ~aed_messenger_configfile
    /\ ~aed_sms_messenger_configfile


----------------------------------------------------------------------------
(* Claims about the lifetime of the cache *)

\* the last callback evaluated a state that the identity's previous True
\* evaluation carried too, inside the TTL window of that evaluation
RepeatInWindow ==
    /\ last.evaluated
    /\ last.prev # None
    /\ last.prev[1].value = LastState
    /\ ~last.prev[1].evicted
    /\ now - last.prev[1].time < TTLSeconds

\* C27: the cache outlives the connections and not the process: a repeat of
\* an identity's unchanged state inside the TTL window is suppressed also
\* when the feed was reconnected in between, as long as the program was not
\* restarted; after a restart the first classified beacon of an identity
\* notifies again, whatever was in the cache before.
C27_CacheOutlivesReconnect ==
    /\ (RepeatInWindow /\ ~last.prev[1].restarted) => ~last.send
    /\ (last.evaluated /\ last.prev # None /\ last.prev[1].restarted)
       => last.send

\* C27, with it: a restart is the only step that empties a cache
C27_OnlyRestartEmpties ==
    [][(message_cache # <<>> /\ message_cache' = <<>>)
       => \E k \in Keys : /\ lastTrue[k] # None
                          /\ ~lastTrue[k][1].restarted
                          /\ lastTrue'[k][1].restarted]_vars

\* C27 witness: the feed was reconnected between a beacon and its repeat
\* inside the window, and the repeat is suppressed
C27_Witness ==
    /\ RepeatInWindow
    /\ last.prev[1].reconnected
    /\ ~last.prev[1].restarted
    /\ last.prev[1].time < now
    /\ ~last.send

\* C27, a further state reached: the program was restarted between a beacon
\* and its repeat inside the window, and the repeat notifies again
C27_NotifiedAgainAfterRestart ==
    /\ RepeatInWindow
    /\ last.prev[1].restarted
    /\ last.send


----------------------------------------------------------------------------
(* Claims about the start of the program *)

\* C22 (as stated): the TTL the cache is set up with is never below 15
\* minutes; a --ttl below that is rejected, or raised to it, before the
\* cache is set up.
C22_TtlAtLeastMinimum ==
    startup.phase = "cache"
    => startup.max_age_seconds >= MINIMUM_EMERGENCY_INTERVAL * 60

\* C22, what holds: the cache is set up with the --ttl argument as it is,
\* or with the default of 480 minutes; only an argument that is no integer
\* numeral ends the program.
C22_TtlAsGiven ==
    /\ startup.phase = "cache"
       => startup.max_age_seconds
            = 60 * (IF startup.given THEN startup.value ELSE 8 * 60)
    /\ startup.phase = "exited" => (startup.given /\ ~startup.integer)

\* C22, what holds: emergency_run_interval_check rejects exactly the values
\* the cache must not be set up with; get_command_line_params does not use
\* it
C22_CheckRejectsBelowMinimum ==
    startup.phase = "cache"
    => (emergency_run_interval_check(startup.time_to_live).raised
        <=> startup.max_age_seconds < 15 * 60)

\* C22, a state reached: the program was started with --ttl 5 and the cache
\* is set up with 300 seconds
C22_CacheBelowMinimum ==
    /\ startup.phase = "cache"
    /\ startup.given /\ startup.value = 5
    /\ startup.max_age_seconds = 300

\* C22, a state reached: with --ttl -1 the cache is set up with a negative
\* age
C22_CacheWithNegativeAge ==
    /\ startup.phase = "cache"
    /\ startup.given /\ startup.value = 0 - 1
    /\ startup.max_age_seconds < 0


----------------------------------------------------------------------------
(* Claims about the conversions of coordinates *)

\* twice the distance that rounding the seconds to the precision of the
\* call can move a coordinate by (none for a precision finer than the unit
\* of the model)
RoundingStep ==
    IF geo_call.output_precision >= 2 THEN 0
    ELSE pow10(2 - geo_call.output_precision)

\* the coordinate came back from the round trip within the rounding of the
\* seconds
CameBack(original, back) ==
    /\ 2 * (back - original) <= RoundingStep
    /\ 2 * (original - back) <= RoundingStep

\* a latitude and a longitude went through convert_latlon_to_dms and
\* convert_dms_to_latlon
RoundTripDone == geo_call.fn = "dms" /\ geo_call.latlon # None

\* the coordinate lies in the first degree south of the equator or west of
\* the prime meridian
InFirstNegativeDegree(coordinate) == coordinate < 0 /\ coordinate > 0 - DEGREE

\* C23 (as stated): a latitude and a longitude converted to degrees,
\* minutes, seconds and heading and back are the original ones, sign
\* included, within the rounding of the seconds.
C23_DmsRoundTrip ==
    RoundTripDone
    => /\ CameBack(geo_call.latitude, geo_call.latlon[1].latitude)
       /\ CameBack(geo_call.longitude, geo_call.latlon[1].longitude)

\* C23, what holds: a coordinate comes back within the rounding unless it
\* lies in the first degree south or west of zero, and then it comes back
\* with the opposite sign.
C23_RoundTripButFirstNegativeDegree ==
    RoundTripDone
    => /\ IF InFirstNegativeDegree(geo_call.latitude)
          THEN CameBack(0 - geo_call.latitude, geo_call.latlon[1].latitude)
          ELSE CameBack(geo_call.latitude, geo_call.latlon[1].latitude)
       /\ IF InFirstNegativeDegree(geo_call.longitude)
          THEN CameBack(0 - geo_call.longitude, geo_call.latlon[1].longitude)
          ELSE CameBack(geo_call.longitude, geo_call.latlon[1].longitude)

\* C23, a state reached: half a degree south comes back as half a degree
\* north
C23_SouthBecomesNorth ==
    /\ RoundTripDone
    /\ geo_call.latitude = 0 - 30 * MINUTE
    /\ geo_call.dms[1].latitude_deg = 0
    /\ geo_call.dms[1].latitude_min = 30
    /\ geo_call.dms[1].latitude_heading = "N"
    /\ geo_call.latlon[1].latitude = 30 * MINUTE

\* C23, a state reached: a latitude of more than a degree south comes back
\* as it was, its seconds rounded up to a full minute on the way
C23_SouthKept ==
    /\ RoundTripDone
    /\ geo_call.output_precision = 0
    /\ geo_call.latitude = 0 - (DEGREE + 59 * MINUTE + 5950)
    /\ geo_call.dms[1].latitude_heading = "S"
    /\ geo_call.dms[1].latitude_sec = 60 * SECOND
    /\ geo_call.latlon[1].latitude = 0 - 2 * DEGREE


\* a call of convert_latlon_to_maidenhead is over
MaidenheadDone ==
    geo_call.fn = "maidenhead" /\ ~geo_call.pending

\* the coordinates are those of a place: a latitude up to 90 degrees and a
\* longitude up to 180, on both sides of zero
OnTheGlobe(latitude, longitude) ==
    abs(latitude) <= 90 * DEGREE /\ abs(longitude) <= 180 * DEGREE

\* C24 (as stated): for coordinates out of range, by a fraction of a degree
\* too, the grid-square conversion returns no result and raises no error,
\* and it returns a locator only for coordinates in range.
C24_NoLocatorOffTheGlobe ==
    MaidenheadDone
    => /\ ~OnTheGlobe(geo_call.latitude, geo_call.longitude)
          => geo_call.maidenhead = None /\ ~geo_call.raised
       /\ geo_call.maidenhead # None
          => OnTheGlobe(geo_call.latitude, geo_call.longitude)

\* C24, what the code does: no result and no error where the whole degrees
\* of a coordinate are beyond the limit, and for every place of the globe
\* the locator of the place.
C24_NoLocatorBeyondWholeDegree ==
    MaidenheadDone
    => /\ ~InRangeForMaidenhead(geo_call.latitude, geo_call.longitude)
          => geo_call.maidenhead = None /\ ~geo_call.raised
       /\ OnTheGlobe(geo_call.latitude, geo_call.longitude)
          => /\ ~geo_call.raised
             /\ geo_call.maidenhead
                  = Some(<<(geo_call.longitude + 180 * DEGREE)
                              \div (20 * DEGREE),
                           (geo_call.latitude + 90 * DEGREE)
                              \div (10 * DEGREE)>>)

\* C24, a state reached: latitude 90.5 is converted, and a locator of no
\* place comes back
C24_LocatorOfNoPlace ==
    /\ MaidenheadDone
    /\ geo_call.latitude = 90 * DEGREE + 30 * MINUTE
    /\ geo_call.longitude = 0
    /\ geo_call.returned
    /\ geo_call.maidenhead # None

\* C24, a state reached: latitude 90.5 is converted, and the library raises
C24_RaisedOffTheGlobe ==
    /\ MaidenheadDone
    /\ geo_call.latitude = 0 - (90 * DEGREE + 30 * MINUTE)
    /\ geo_call.raised

\* C24, a state reached: latitude 91 is refused without an error
C24_RefusedAtWholeDegree ==
    /\ MaidenheadDone
    /\ geo_call.latitude = 91 * DEGREE
    /\ geo_call.longitude = 45 * DEGREE + 30 * MINUTE
    /\ geo_call.returned
    /\ geo_call.maidenhead = None


\* the chunks make_pretty_sms_messages makes of a text with its defaults
Chunked(text) ==
    make_pretty_sms_messages(text, <<>>, DEFAULT_MAX_LEN, " ", TRUE, FALSE,
                             0).list

\* a call of generate_apprise_message for an abbreviated message is over and
\* has handed a body to the notifier
AbbreviatedHandedOver ==
    ~apprise_call.pending /\ apprise_call.notified # <<>>

\* C21 (as stated): every abbreviated body handed to the notifier has passed
\* through the message chunker and is no longer than the limit for
\* abbreviated messages, 67 characters by default.
C21_AbbreviatedBodyChunked ==
    AbbreviatedHandedOver
    => /\ apprise_call.notified = Chunked(apprise_call.body)
       /\ \A i \in 1..Len(apprise_call.notified) :
            Len(apprise_call.notified[i]) <= DEFAULT_MAX_LEN

\* C21, what the code does: the body is handed over in one piece whatever
\* its length, which is what the chunker would have made of it only where
\* it is within the limit.
C21_BodyHandedWhole ==
    AbbreviatedHandedOver
    => /\ apprise_call.notified = <<apprise_call.body>>
       /\ apprise_call.notified = Chunked(apprise_call.body)
            <=> Len(apprise_call.body) <= DEFAULT_MAX_LEN

\* C21, a state reached: a body of 69 characters is handed over in one
\* piece, of which the chunker makes two
C21_BodyBeyondLimit ==
    /\ AbbreviatedHandedOver
    /\ apprise_call.notified
         = <<"!IN_SERVICE! CS:DF1JSL-15 Pos:JO41st16 Spd:66.6 Dir:180.0 Dst:20015km">>
    /\ Len(apprise_call.notified[1]) = 69
    /\ Len(Chunked(apprise_call.body)) = 2

\* C21, a state reached: a body within the limit is handed over as the
\* chunker would have left it
C21_BodyWithinLimit ==
    /\ AbbreviatedHandedOver
    /\ apprise_call.category = "EMERGENCY"
    /\ apprise_call.callsign = Some("DF1JSL-1")
    /\ Len(apprise_call.body) <= DEFAULT_MAX_LEN
    /\ apprise_call.notified = Chunked(apprise_call.body)

====
